---- MODULE Spec2Model ----
(***************************************************************************)
(* The quiz / scoring / portrait backend of api/main.py as a state machine. *)
(* The five in-memory stores are the state; every HTTP handler is one       *)
(* action that runs to completion and leaves its response in `resp`.        *)
(* The handlers take no lock and the upload handler awaits between its      *)
(* statements, so submit_answer, compute_match, upload_selfie and           *)
(* generate_portrait are also given statement by statement, one action per  *)
(* store access, run by the workers of `threads` (SpecConc, SpecMedia).     *)
(*                                                                          *)
(* Python dicts keep insertion order, and the scoring code iterates them,   *)
(* so CHARACTER_STORE and a session's answers are sequences.  Optional      *)
(* values (None) are sequences of length 0 or 1.  Scores are Python floats: *)
(* they are modelled as binary floating point numbers with a MantBits-bit   *)
(* significand, added with round-to-nearest-even, in units of the smallest  *)
(* weight.  Timestamps that no handler reads (created_at, updated_at) and   *)
(* free text are left out.                                                  *)
(***************************************************************************)
EXTENDS Integers, Sequences, FiniteSets, TLC

VARIABLES
    now,              \* the UTC clock, in minutes
    QUIZ_STORE,       \* quiz id -> [question_ids]
    QUESTION_STORE,   \* question id -> [choices, order]
    CHARACTER_STORE,  \* sequence of characters, in insertion order
    SESSION_STORE,    \* session id -> session
    RESULT_STORE,     \* session id -> [match, portrait_url]
    blobs,            \* the files present under storage/
    issued,           \* the hex ids uuid4 has given the admin handlers
    threads,          \* the handlers in progress, each with its locals
    resp              \* the request just handled and its response

vars == <<now, QUIZ_STORE, QUESTION_STORE, CHARACTER_STORE, SESSION_STORE,
          RESULT_STORE, blobs, issued, threads, resp>>

stores == <<QUIZ_STORE, QUESTION_STORE, CHARACTER_STORE, SESSION_STORE,
            RESULT_STORE, blobs>>

catalog == <<QUIZ_STORE, QUESTION_STORE, CHARACTER_STORE>>

\* what a handler that runs to completion and draws no hex id leaves alone
aux == <<issued, threads>>

(***************************************************************************)
(* Bounds of the model.                                                     *)
(***************************************************************************)
MaxTime == 2          \* the clock stops here
MaxUploads == 1       \* uploads accepted per session
MantBits == 3         \* significand width of the model's floats
DatetimeMax == 100    \* datetime.max (the end of year 9999), in minutes

(***************************************************************************)
(* Optional values.                                                         *)
(***************************************************************************)
None == <<>>
Some(x) == <<x>>
IsNone(o) == o = <<>>
Val(o) == o[1]

(***************************************************************************)
(* Insertion-ordered dict of entries [k, v] (a session's answers).          *)
(***************************************************************************)
DictKeys(d) == {d[i].k : i \in 1..Len(d)}

DictGet(d, key) == LET i == CHOOSE i \in 1..Len(d) : d[i].k = key IN d[i].v

\* (mutant) every assignment adds an entry, the earlier one stays
DictSet_append(d, key, value) == Append(d, [k |-> key, v |-> value])

\* d[key] = value : an existing key keeps its position, a new key goes last
DictSet(d, key, value) ==
    IF key \in DictKeys(d)
    THEN [i \in 1..Len(d) |-> IF d[i].k = key THEN [k |-> key, v |-> value] ELSE d[i]]
    ELSE Append(d, [k |-> key, v |-> value])

(***************************************************************************)
(* Floating point: the nearest representable value, ties to even.           *)
(***************************************************************************)
RECURSIVE Pow2(_)
Pow2(n) == IF n = 0 THEN 1 ELSE 2 * Pow2(n - 1)

RECURSIVE UlpOf(_, _)
UlpOf(x, st) == IF x \div st < Pow2(MantBits) THEN st ELSE UlpOf(x, 2 * st)

fl(x) ==
    LET st == UlpOf(x, 1)
        q == x \div st
        r == x % st
    IN  IF r = 0 THEN x
        ELSE IF 2 * r < st THEN q * st
        ELSE IF 2 * r > st THEN (q + 1) * st
        ELSE IF q % 2 = 0 THEN q * st ELSE (q + 1) * st

fadd(a, b) == fl(a + b)

(***************************************************************************)
(* The seeded catalog.                                                      *)
(***************************************************************************)
ADMIN_TOKEN == "dev-admin-token"

SeedCharacters ==
    << [id |-> "vader", name |-> "Darth Vader"],
       [id |-> "luke", name |-> "Luke Skywalker"],
       [id |-> "leia", name |-> "Princess Leia"] >>

SeedQuestions ==
    ("q1" :> [choices |-> << [id |-> "c1", weights |-> ("luke" :> 1)],
                             [id |-> "c2", weights |-> ("leia" :> 1)],
                             [id |-> "c3", weights |-> ("vader" :> 1)] >>,
              order |-> 1])
    @@
    ("q2" :> [choices |-> << [id |-> "c4", weights |-> ("luke" :> 1)],
                             [id |-> "c5", weights |-> ("vader" :> 1)],
                             [id |-> "c6", weights |-> ("leia" :> 1)] >>,
              order |-> 2])

SeedQuizzes == ("default" :> [question_ids |-> <<"q1", "q2">>])

(***************************************************************************)
(* Requests the clients send.                                               *)
(***************************************************************************)
SessionIds == {"s1"}               \* the ids uuid4 may issue
ReqSessionIds == {"s1", "s0"}      \* "s0" is never issued
TTLs == {0, 2}
QuizIdInputs == {"default", "nope"}
QuestionIdInputs == {"q1", "q2", "q9"}
ChoiceIdInputs == {"c1", "c2", "c6"}
CharacterIdInputs == {"vader", "luke", "leia"}
ContentTypes == {"image/jpeg", "image/png", "image/gif"}
Tokens == {ADMIN_TOKEN, "guess"}

NoResp == [op |-> "none", sid |-> "", status |-> 0, detail |-> "",
           req |-> None, match |-> None, path |-> None, replaced |-> None,
     body |-> None]

Reply(op, sid, status, detail) ==
    [op |-> op, sid |-> sid, status |-> status, detail |-> detail,
     req |-> None, match |-> None, path |-> None, replaced |-> None,
     body |-> None]

(***************************************************************************)
(* Lookup helpers.                                                          *)
(***************************************************************************)
HasQuiz(quiz_id) == quiz_id \in DOMAIN QUIZ_STORE
HasQuestion(question_id) == question_id \in DOMAIN QUESTION_STORE
CharacterIds == {CHARACTER_STORE[i].id : i \in 1..Len(CHARACTER_STORE)}
HasSession(session_id) == session_id \in DOMAIN SESSION_STORE

\* datetime.utcnow() > datetime.fromisoformat(expires_at.replace("Z", "")):
\* isoformat() + "Z" and its parse return the datetime that was written
IsExpired(session) == now > session.expires_at

\* (mutant) an expired session is reported like a purged one
get_session_expired_as_missing(session_id) ==
    IF ~HasSession(session_id) THEN 404
    ELSE IF IsExpired(SESSION_STORE[session_id]) THEN 404
    ELSE 0

\* 0 when the session is returned, else the status raised
_get_session_or_404(session_id) ==
    IF ~HasSession(session_id) THEN 404
    ELSE IF IsExpired(SESSION_STORE[session_id]) THEN 410
    ELSE 0

SessionError(op, session_id) ==
    IF _get_session_or_404(session_id) = 404
    THEN Reply(op, session_id, 404, "Session not found")
    ELSE Reply(op, session_id, 410, "Session expired")

_get_character_or_404(character_id) ==
    LET i == CHOOSE i \in 1..Len(CHARACTER_STORE) : CHARACTER_STORE[i].id = character_id
    IN  CHARACTER_STORE[i]

Max(a, b) == IF a >= b THEN a ELSE b

(***************************************************************************)
(* Handlers in progress.  The server runs a `def` handler on a worker       *)
(* thread and an `async def` handler on the event loop, and the code takes  *)
(* no lock, so handlers interleave between statements.  A worker holds the  *)
(* handler's name, the statement it is at and the handler's locals.         *)
(***************************************************************************)
Threads == {"t1", "t2"}

Idle == [op |-> "idle", pc |-> "", sid |-> "", req |-> None,
         result |-> None, path |-> None]

NoThreads == [t \in Threads |-> Idle]

Quiescent == threads = NoThreads

(***************************************************************************)
(* Initial state: the stores after _seed_demo_data().                       *)
(***************************************************************************)
Init ==
    /\ now = 0
    /\ QUIZ_STORE = SeedQuizzes
    /\ QUESTION_STORE = SeedQuestions
    /\ CHARACTER_STORE = SeedCharacters
    /\ SESSION_STORE = <<>>
    /\ RESULT_STORE = <<>>
    /\ blobs = {}
    /\ issued = {}
    /\ threads = NoThreads
    /\ resp = NoResp

(***************************************************************************)
(* The clock.                                                               *)
(***************************************************************************)
Tick ==
    /\ now < MaxTime
    /\ now' = now + 1
    /\ resp' = NoResp
    /\ UNCHANGED <<stores, aux>>

(***************************************************************************)
(* POST /session                                                            *)
(***************************************************************************)
NewSession(ttl_minutes) ==
    [expires_at |-> now + Max(1, ttl_minutes),
     answers |-> <<>>,
     uploads |-> <<>>,
     quiz_id |-> None,
     scored |-> FALSE]

\* (mutant) the id of an expired session is given out again
create_session_recycling(session_id, ttl_minutes) ==
        /\ IF session_id \in DOMAIN SESSION_STORE
           THEN IsExpired(SESSION_STORE[session_id]) ELSE TRUE
        /\ SESSION_STORE' = (session_id :> NewSession(ttl_minutes)) @@ SESSION_STORE
        /\ resp' = Reply("create_session", session_id, 200, "")
        /\ UNCHANGED <<now, catalog, RESULT_STORE, blobs>>

\* datetime.utcnow() + timedelta(minutes=...) raises OverflowError when the
\* sum lies past datetime.max
ExpiryOverflows(ttl_minutes) == now + Max(1, ttl_minutes) > DatetimeMax

create_session(session_id, ttl_minutes) ==
        /\ session_id \notin DOMAIN SESSION_STORE     \* uuid4: a fresh id
        /\ UNCHANGED <<now, catalog, RESULT_STORE, blobs>>
        /\ IF ExpiryOverflows(ttl_minutes)
           THEN /\ resp' = Reply("create_session", "", 500, "Internal Server Error")
                /\ UNCHANGED SESSION_STORE
           ELSE /\ SESSION_STORE' = (session_id :> NewSession(ttl_minutes)) @@ SESSION_STORE
                /\ resp' = Reply("create_session", session_id, 200, "")

(***************************************************************************)
(* POST /answers                                                            *)
(***************************************************************************)
ChoiceIds(q) == {q.choices[i].id : i \in 1..Len(q.choices)}

\* (mutant) the choice is not checked against the question
ValidChoice_any(q, choice_id) == TRUE

\* payload.choice_id in [c["id"] for c in q["choices"]]
ValidChoice(q, choice_id) == choice_id \in ChoiceIds(q)

\* (mutant) the scored flag is not reset
AnswerRecorded_scored_kept(session, quiz_id, question_id, choice_id) ==
    [session EXCEPT !.answers = DictSet(@, question_id, choice_id),
                    !.quiz_id = Some(quiz_id)]

AnswerRecorded(session, quiz_id, question_id, choice_id) ==
    [session EXCEPT !.answers = DictSet(@, question_id, choice_id),
                    !.quiz_id = Some(quiz_id),
                    !.scored = FALSE]

submit_answer(session_id, quiz_id, question_id, choice_id) ==
        /\ UNCHANGED <<now, catalog, RESULT_STORE, blobs>>
        /\ IF _get_session_or_404(session_id) # 0
           THEN /\ resp' = SessionError("submit_answer", session_id)
                /\ UNCHANGED SESSION_STORE
           ELSE IF ~HasQuiz(quiz_id)
           THEN /\ resp' = Reply("submit_answer", session_id, 404, "Quiz not found")
                /\ UNCHANGED SESSION_STORE
           ELSE IF ~HasQuestion(question_id)
           THEN /\ resp' = Reply("submit_answer", session_id, 404, "Question not found")
                /\ UNCHANGED SESSION_STORE
           ELSE IF ~ValidChoice(QUESTION_STORE[question_id], choice_id)
           THEN /\ resp' = Reply("submit_answer", session_id, 400,
                                 "Invalid choice for question")
                /\ UNCHANGED SESSION_STORE
           ELSE /\ SESSION_STORE' =
                       [SESSION_STORE EXCEPT ![session_id] =
                           AnswerRecorded(@, quiz_id, question_id, choice_id)]
                /\ resp' = [Reply("submit_answer", session_id, 200, "") EXCEPT
                               !.req = Some([quiz_id |-> quiz_id,
                                             question_id |-> question_id,
                                             choice_id |-> choice_id])]

(***************************************************************************)
(* The scoring engine.                                                      *)
(***************************************************************************)
\* tally = {cid: 0.0 for cid in CHARACTER_STORE.keys()}
ZeroTally ==
    [i \in 1..Len(CHARACTER_STORE) |->
        [character_id |-> CHARACTER_STORE[i].id, score |-> 0]]

\* (mutant) a choice id that is not found falls back to the first choice
FindChoice_first(q, choice_id) ==
    LET hits == {i \in 1..Len(q.choices) : q.choices[i].id = choice_id}
    IN  IF hits = {} THEN Some(q.choices[1])
        ELSE Some(q.choices[CHOOSE i \in hits : \A j \in hits : i <= j])

\* next((c for c in q["choices"] if c["id"] == choice_id), None)
FindChoice(q, choice_id) ==
    LET hits == {i \in 1..Len(q.choices) : q.choices[i].id = choice_id}
    IN  IF hits = {} THEN None
        ELSE Some(q.choices[CHOOSE i \in hits : \A j \in hits : i <= j])

\* for char_id, w in weights.items(): if char_id in tally: tally[char_id] += float(w)
AddWeights(tally, weights) ==
    [i \in 1..Len(tally) |->
        IF tally[i].character_id \in DOMAIN weights
        THEN [tally[i] EXCEPT !.score = fadd(@, weights[tally[i].character_id])]
        ELSE tally[i]]

\* the loop over answers.items(), in the dict's order
RECURSIVE TallyAnswers(_, _)
TallyAnswers(answers, tally) ==
    IF answers = <<>> THEN tally
    ELSE LET choice == FindChoice(QUESTION_STORE[Head(answers).k], Head(answers).v)
         IN  TallyAnswers(Tail(answers),
                          IF IsNone(choice) THEN tally
                          ELSE AddWeights(tally, Val(choice).weights))

\* (mutant) an entry goes before the entries of equal score
RECURSIVE InsertDesc_unstable(_, _)
InsertDesc_unstable(sorted, r) ==
    IF sorted = <<>> THEN <<r>>
    ELSE IF Head(sorted).score > r.score
         THEN <<Head(sorted)>> \o InsertDesc_unstable(Tail(sorted), r)
         ELSE <<r>> \o sorted

\* results.sort(key=lambda r: r.score, reverse=True): stable, descending
RECURSIVE InsertDesc(_, _)
InsertDesc(sorted, r) ==
    IF sorted = <<>> THEN <<r>>
    ELSE IF Head(sorted).score >= r.score
         THEN <<Head(sorted)>> \o InsertDesc(Tail(sorted), r)
         ELSE <<r>> \o sorted

RECURSIVE SortDesc(_, _)
SortDesc(results, sorted) ==
    IF results = <<>> THEN sorted
    ELSE SortDesc(Tail(results), InsertDesc(sorted, Head(results)))

\* _get_question_or_404 raises inside the loop
ScoresRaise(session) ==
    \E i \in 1..Len(session.answers) : ~HasQuestion(session.answers[i].k)

_compute_scores(session) == SortDesc(TallyAnswers(session.answers, ZeroTally), <<>>)

(***************************************************************************)
(* POST /match/{session_id}                                                 *)
(***************************************************************************)
\* not session.get("quiz_id")
NoQuizSelected(session) == IsNone(session.quiz_id)

TopOf(scores) == IF Len(scores) > 0 THEN Some(scores[1]) ELSE None

\* (mutant) a top score of 0 resolves the character too
ResolveCharacter_zero(top) ==
    IF ~IsNone(top) /\ Val(top).score >= 0
    THEN Some(_get_character_or_404(Val(top).character_id))
    ELSE None

ResolveCharacter(top) ==
    IF ~IsNone(top) /\ Val(top).score > 0
    THEN Some(_get_character_or_404(Val(top).character_id))
    ELSE None

MatchResult(session_id, quiz_id, scores) ==
    [session_id |-> session_id,
     quiz_id |-> quiz_id,
     top_match |-> TopOf(scores),
     scores |-> scores,
     character |-> ResolveCharacter(TopOf(scores)),
     portrait_url |-> None]

\* RESULT_STORE.get(session_id, {})
ResultOf(session_id) ==
    IF session_id \in DOMAIN RESULT_STORE THEN RESULT_STORE[session_id]
    ELSE [match |-> None, portrait_url |-> None]

\* (mutant) the result is written anew: an earlier portrait_url is dropped
StoreMatch_anew(session_id, result) ==
    (session_id :> [match |-> Some(result), portrait_url |-> None]) @@ RESULT_STORE

\* (mutant) the match is written into every session's result
StoreMatch_shared(session_id, result) ==
    [s \in DOMAIN RESULT_STORE \cup {session_id} |->
        [ResultOf(s) EXCEPT !.match = Some(result)]]

StoreMatch(session_id, result) ==
    (session_id :> [ResultOf(session_id) EXCEPT !.match = Some(result)]) @@ RESULT_STORE

\* the handler's last statements: store the result, mark the session, return
MatchStored(session_id) ==
    LET result == MatchResult(session_id,
                              Val(SESSION_STORE[session_id].quiz_id),
                              _compute_scores(SESSION_STORE[session_id]))
    IN  /\ RESULT_STORE' = StoreMatch(session_id, result)
        /\ SESSION_STORE' = [SESSION_STORE EXCEPT ![session_id].scored = TRUE]
        /\ resp' = [Reply("compute_match", session_id, 200, "") EXCEPT
                       !.match = Some(result)]

\* (mutant) the quiz_id test is left out: MatchResult(quiz_id=None) then fails
\* validation and the request ends as an internal server error
compute_match_unchecked(session_id) ==
        /\ UNCHANGED <<now, catalog, blobs>>
        /\ IF _get_session_or_404(session_id) # 0
           THEN /\ resp' = SessionError("compute_match", session_id)
                /\ UNCHANGED <<SESSION_STORE, RESULT_STORE>>
           ELSE IF ScoresRaise(SESSION_STORE[session_id])
           THEN /\ resp' = Reply("compute_match", session_id, 404, "Question not found")
                /\ UNCHANGED <<SESSION_STORE, RESULT_STORE>>
           ELSE IF NoQuizSelected(SESSION_STORE[session_id])
           THEN /\ resp' = Reply("compute_match", session_id, 500, "Internal Server Error")
                /\ UNCHANGED <<SESSION_STORE, RESULT_STORE>>
           ELSE MatchStored(session_id)

\* (mutant) an answer whose question is gone is skipped
compute_match_skipping(session_id) ==
        /\ UNCHANGED <<now, catalog, blobs>>
        /\ IF _get_session_or_404(session_id) # 0
           THEN /\ resp' = SessionError("compute_match", session_id)
                /\ UNCHANGED <<SESSION_STORE, RESULT_STORE>>
           ELSE IF NoQuizSelected(SESSION_STORE[session_id])
           THEN /\ resp' = Reply("compute_match", session_id, 400,
                                 "No quiz selected in session")
                /\ UNCHANGED <<SESSION_STORE, RESULT_STORE>>
           ELSE LET kept == SelectSeq(SESSION_STORE[session_id].answers,
                                      LAMBDA a : HasQuestion(a.k))
                    result == MatchResult(session_id,
                                          Val(SESSION_STORE[session_id].quiz_id),
                                          SortDesc(TallyAnswers(kept, ZeroTally), <<>>))
                IN  /\ RESULT_STORE' = StoreMatch(session_id, result)
                    /\ SESSION_STORE' = [SESSION_STORE EXCEPT ![session_id].scored = TRUE]
                    /\ resp' = [Reply("compute_match", session_id, 200, "") EXCEPT
                                   !.match = Some(result)]

compute_match(session_id) ==
        /\ UNCHANGED <<now, catalog, blobs>>
        /\ IF _get_session_or_404(session_id) # 0
           THEN /\ resp' = SessionError("compute_match", session_id)
                /\ UNCHANGED <<SESSION_STORE, RESULT_STORE>>
           ELSE IF NoQuizSelected(SESSION_STORE[session_id])
           THEN /\ resp' = Reply("compute_match", session_id, 400,
                                 "No quiz selected in session")
                /\ UNCHANGED <<SESSION_STORE, RESULT_STORE>>
           ELSE IF ScoresRaise(SESSION_STORE[session_id])
           THEN /\ resp' = Reply("compute_match", session_id, 404, "Question not found")
                /\ UNCHANGED <<SESSION_STORE, RESULT_STORE>>
           ELSE MatchStored(session_id)

(***************************************************************************)
(* POST /upload/selfie                                                      *)
(***************************************************************************)
\* (mutant) every declared content type is accepted
AllowedTypes_any == ContentTypes

AllowedTypes == {"image/jpeg", "image/png"}

Ext(content_type) == IF content_type = "image/jpeg" THEN ".jpg" ELSE ".png"

\* f"/media/uploads/{session_id}_{uuid4().hex}{ext}": a name not used before
UploadPath(session_id, content_type) ==
    <<"uploads", session_id, Len(SESSION_STORE[session_id].uploads) + 1, Ext(content_type)>>

upload_selfie(session_id, content_type) ==
        /\ UNCHANGED <<now, catalog, RESULT_STORE>>
        /\ IF _get_session_or_404(session_id) # 0
           THEN /\ resp' = SessionError("upload_selfie", session_id)
                /\ UNCHANGED <<SESSION_STORE, blobs>>
           ELSE IF content_type \notin AllowedTypes
           THEN /\ resp' = Reply("upload_selfie", session_id, 400, "Unsupported file type")
                /\ UNCHANGED <<SESSION_STORE, blobs>>
           ELSE /\ Len(SESSION_STORE[session_id].uploads) < MaxUploads
                /\ blobs' = blobs \cup {UploadPath(session_id, content_type)}
                /\ SESSION_STORE' =
                       [SESSION_STORE EXCEPT ![session_id].uploads =
                           Append(@, UploadPath(session_id, content_type))]
                /\ resp' = [Reply("upload_selfie", session_id, 200, "") EXCEPT
                               !.path = Some(UploadPath(session_id, content_type))]

(***************************************************************************)
(* POST /generate/{session_id}                                              *)
(***************************************************************************)
PortraitPath(session_id) == <<"results", session_id>>

\* (mutant) the first upload is taken
Last_first(seq) == seq[1]

\* session["uploads"][-1]
Last(seq) == seq[Len(seq)]

\* (mutant) any stored match will do, also one without a top_match
NoUsableMatch_any(session_id) == IsNone(ResultOf(session_id).match)

\* not result_data or not result_data.get("top_match")
NoUsableMatch(session_id) ==
    \/ IsNone(ResultOf(session_id).match)
    \/ IsNone(Val(ResultOf(session_id).match).top_match)

\* (mutant) every generated portrait is kept: the references pile up
StorePortrait_kept(session_id, rel_out) ==
    (session_id :> [ResultOf(session_id) EXCEPT
                       !.portrait_url = IF IsNone(@) THEN Some(rel_out)
                                        ELSE Some(Val(@) \o rel_out)])
        @@ RESULT_STORE

StorePortrait(session_id, rel_out) ==
    (session_id :> [ResultOf(session_id) EXCEPT !.portrait_url = Some(rel_out)])
        @@ RESULT_STORE

generate_portrait(session_id) ==
        /\ UNCHANGED <<now, catalog, SESSION_STORE>>
        /\ IF _get_session_or_404(session_id) # 0
           THEN /\ resp' = SessionError("generate_portrait", session_id)
                /\ UNCHANGED <<RESULT_STORE, blobs>>
           ELSE IF SESSION_STORE[session_id].uploads = <<>>
           THEN /\ resp' = Reply("generate_portrait", session_id, 400,
                                 "No selfie uploaded for session")
                /\ UNCHANGED <<RESULT_STORE, blobs>>
           ELSE IF NoUsableMatch(session_id)
           THEN /\ resp' = Reply("generate_portrait", session_id, 400,
                                 "No match computed for session")
                /\ UNCHANGED <<RESULT_STORE, blobs>>
           ELSE IF Last(SESSION_STORE[session_id].uploads) \notin blobs
           THEN /\ resp' = Reply("generate_portrait", session_id, 404,
                                 "Uploaded file not found on server")
                /\ UNCHANGED <<RESULT_STORE, blobs>>
           ELSE /\ blobs' = blobs \cup {PortraitPath(session_id)}
                /\ RESULT_STORE' = StorePortrait(session_id, PortraitPath(session_id))
                /\ resp' = [Reply("generate_portrait", session_id, 200, "") EXCEPT
                               !.path = Some(PortraitPath(session_id)),
                               !.replaced = ResultOf(session_id).portrait_url]

(***************************************************************************)
(* GET /results/{session_id}                                                *)
(***************************************************************************)
\* (mutant) the stored match is returned as it is
MergedResult_unmerged(res) == Val(res.match)

\* MatchResult(**match_data), then portrait_url merged in when there is one
MergedResult(res) ==
    IF IsNone(res.portrait_url) THEN Val(res.match)
    ELSE [Val(res.match) EXCEPT !.portrait_url = res.portrait_url]

\* (mutant) the result is computed from the catalog and answers of the moment
get_result_live(session_id) ==
        /\ UNCHANGED stores
        /\ UNCHANGED now
        /\ IF _get_session_or_404(session_id) # 0
           THEN resp' = SessionError("get_result", session_id)
           ELSE IF IsNone(ResultOf(session_id).match)
           THEN resp' = Reply("get_result", session_id, 404, "No result for session")
           ELSE IF ScoresRaise(SESSION_STORE[session_id])
           THEN resp' = Reply("get_result", session_id, 404, "Question not found")
           ELSE resp' = [Reply("get_result", session_id, 200, "") EXCEPT
                            !.match = Some(MatchResult(session_id,
                                               Val(SESSION_STORE[session_id].quiz_id),
                                               _compute_scores(SESSION_STORE[session_id])))]

get_result(session_id) ==
        /\ UNCHANGED stores
        /\ UNCHANGED now
        /\ IF _get_session_or_404(session_id) # 0
           THEN resp' = SessionError("get_result", session_id)
           ELSE IF IsNone(ResultOf(session_id).match)
           THEN resp' = Reply("get_result", session_id, 404, "No result for session")
           ELSE resp' = [Reply("get_result", session_id, 200, "") EXCEPT
                            !.match = Some(MergedResult(ResultOf(session_id)))]

(***************************************************************************)
(* GET /quiz, GET /quiz/{quiz_id}, GET /quiz/{quiz_id}/questions            *)
(***************************************************************************)
\* a read of the catalog: the request's target id and what it returned
Read(op, target, status, detail, body) ==
    [Reply(op, "", status, detail) EXCEPT
        !.req = Some([target |-> target, token |-> ""]), !.body = body]

list_quizzes ==
        /\ UNCHANGED <<now, stores, aux>>
        /\ resp' = Read("list_quizzes", "", 200, "", Some(QUIZ_STORE))

get_quiz(quiz_id) ==
        /\ UNCHANGED <<now, stores, aux>>
        /\ IF ~HasQuiz(quiz_id)
           THEN resp' = Read("get_quiz", quiz_id, 404, "Quiz not found", None)
           ELSE resp' = Read("get_quiz", quiz_id, 200, "", Some(QUIZ_STORE[quiz_id]))

\* the loop over quiz["question_ids"]: the first id not in the store raises
get_quiz_questions(quiz_id) ==
        /\ UNCHANGED <<now, stores, aux>>
        /\ IF ~HasQuiz(quiz_id)
           THEN resp' = Read("get_quiz_questions", quiz_id, 404, "Quiz not found", None)
           ELSE LET ids == QUIZ_STORE[quiz_id].question_ids
                IN  IF \E i \in 1..Len(ids) : ~HasQuestion(ids[i])
                    THEN resp' = Read("get_quiz_questions", quiz_id, 404,
                                      "Question not found", None)
                    ELSE resp' = Read("get_quiz_questions", quiz_id, 200, "",
                                      Some([i \in 1..Len(ids) |-> QUESTION_STORE[ids[i]]]))

(***************************************************************************)
(* The admin surface.  Every handler calls _require_admin first.            *)
(***************************************************************************)
\* (mutant) any token is taken
require_admin_any(token) == TRUE

_require_admin(token) == token = ADMIN_TOKEN

AdminReply(op, target, token, status, detail) ==
    [Reply(op, "", status, detail) EXCEPT
        !.req = Some([target |-> target, token |-> token])]

Forbidden(op, target, token) ==
    AdminReply(op, target, token, 403, "Forbidden: invalid admin token")

\* what the handlers of one store leave alone, next to that store
admin_frame == <<now, SESSION_STORE, RESULT_STORE, blobs, threads>>

admin_auth(token) ==
        /\ UNCHANGED <<now, stores, aux>>
        /\ IF ~_require_admin(token)
           THEN resp' = Forbidden("admin_auth", "", token)
           ELSE resp' = AdminReply("admin_auth", "", token, 200, "")

admin_list_questions(token) ==
        /\ UNCHANGED <<now, stores, aux>>
        /\ IF ~_require_admin(token)
           THEN resp' = Forbidden("admin_list_questions", "", token)
           ELSE resp' = [AdminReply("admin_list_questions", "", token, 200, "") EXCEPT
                            !.body = Some(QUESTION_STORE)]

\* qid = uuid.uuid4().hex: an id that was never given out
admin_create_question(qid, choices, order, token) ==
        /\ UNCHANGED <<admin_frame, QUIZ_STORE, CHARACTER_STORE>>
        /\ IF ~_require_admin(token)
           THEN /\ resp' = Forbidden("admin_create_question", "", token)
                /\ UNCHANGED <<QUESTION_STORE, issued>>
           ELSE /\ qid \notin issued
                /\ issued' = issued \cup {qid}
                /\ QUESTION_STORE' =
                       QUESTION_STORE @@ (qid :> [choices |-> choices, order |-> order])
                /\ resp' = [AdminReply("admin_create_question", qid, token, 200, "") EXCEPT
                               !.body = Some([choices |-> choices, order |-> order])]

\* (mutant) a PUT on an id that is not in the store creates the question
admin_update_question_upsert(question_id, choices, order, token) ==
        /\ UNCHANGED <<admin_frame, QUIZ_STORE, CHARACTER_STORE, issued>>
        /\ IF ~_require_admin(token)
           THEN /\ resp' = Forbidden("admin_update_question", question_id, token)
                /\ UNCHANGED QUESTION_STORE
           ELSE /\ QUESTION_STORE' =
                       (question_id :> [choices |-> IF IsNone(choices) THEN <<>>
                                                    ELSE Val(choices),
                                        order |-> IF IsNone(order) THEN 0
                                                  ELSE Val(order)]) @@ QUESTION_STORE
                /\ resp' = [AdminReply("admin_update_question", question_id, token, 200, "")
                               EXCEPT !.body = Some(QUESTION_STORE'[question_id])]

admin_update_question(question_id, choices, order, token) ==
        /\ UNCHANGED <<admin_frame, QUIZ_STORE, CHARACTER_STORE, issued>>
        /\ IF ~_require_admin(token)
           THEN /\ resp' = Forbidden("admin_update_question", question_id, token)
                /\ UNCHANGED QUESTION_STORE
           ELSE IF ~HasQuestion(question_id)
           THEN /\ resp' = AdminReply("admin_update_question", question_id, token, 404,
                                      "Question not found")
                /\ UNCHANGED QUESTION_STORE
           ELSE /\ QUESTION_STORE' =
                       [QUESTION_STORE EXCEPT
                           ![question_id].choices = IF IsNone(choices) THEN @ ELSE Val(choices),
                           ![question_id].order = IF IsNone(order) THEN @ ELSE Val(order)]
                /\ resp' = [AdminReply("admin_update_question", question_id, token, 200, "")
                               EXCEPT !.body = Some(QUESTION_STORE'[question_id])]

\* del store[key]
Without(store, key) == [k \in DOMAIN store \ {key} |-> store[k]]

\* (mutant) the deleted id is taken out of the quizzes that list it
admin_delete_question_cascading(question_id, token) ==
        /\ UNCHANGED <<admin_frame, CHARACTER_STORE, issued>>
        /\ IF ~_require_admin(token)
           THEN /\ resp' = Forbidden("admin_delete_question", question_id, token)
                /\ UNCHANGED <<QUESTION_STORE, QUIZ_STORE>>
           ELSE IF ~HasQuestion(question_id)
           THEN /\ resp' = AdminReply("admin_delete_question", question_id, token, 404,
                                      "Question not found")
                /\ UNCHANGED <<QUESTION_STORE, QUIZ_STORE>>
           ELSE /\ QUESTION_STORE' = Without(QUESTION_STORE, question_id)
                /\ QUIZ_STORE' =
                       [z \in DOMAIN QUIZ_STORE |->
                           [question_ids |-> SelectSeq(QUIZ_STORE[z].question_ids,
                                                       LAMBDA q : q # question_id)]]
                /\ resp' = AdminReply("admin_delete_question", question_id, token, 200, "")

admin_delete_question(question_id, token) ==
        /\ UNCHANGED <<admin_frame, QUIZ_STORE, CHARACTER_STORE, issued>>
        /\ IF ~_require_admin(token)
           THEN /\ resp' = Forbidden("admin_delete_question", question_id, token)
                /\ UNCHANGED QUESTION_STORE
           ELSE IF ~HasQuestion(question_id)
           THEN /\ resp' = AdminReply("admin_delete_question", question_id, token, 404,
                                      "Question not found")
                /\ UNCHANGED QUESTION_STORE
           ELSE /\ QUESTION_STORE' = Without(QUESTION_STORE, question_id)
                /\ resp' = AdminReply("admin_delete_question", question_id, token, 200, "")

admin_list_characters(token) ==
        /\ UNCHANGED <<now, stores, aux>>
        /\ IF ~_require_admin(token)
           THEN resp' = Forbidden("admin_list_characters", "", token)
           ELSE resp' = [AdminReply("admin_list_characters", "", token, 200, "") EXCEPT
                            !.body = Some(CHARACTER_STORE)]

admin_create_character(cid, name, token) ==
        /\ UNCHANGED <<admin_frame, QUIZ_STORE, QUESTION_STORE>>
        /\ IF ~_require_admin(token)
           THEN /\ resp' = Forbidden("admin_create_character", "", token)
                /\ UNCHANGED <<CHARACTER_STORE, issued>>
           ELSE /\ cid \notin issued
                /\ issued' = issued \cup {cid}
                /\ CHARACTER_STORE' = Append(CHARACTER_STORE, [id |-> cid, name |-> name])
                /\ resp' = [AdminReply("admin_create_character", cid, token, 200, "") EXCEPT
                               !.body = Some([id |-> cid, name |-> name])]

admin_update_character(character_id, name, token) ==
        /\ UNCHANGED <<admin_frame, QUIZ_STORE, QUESTION_STORE, issued>>
        /\ IF ~_require_admin(token)
           THEN /\ resp' = Forbidden("admin_update_character", character_id, token)
                /\ UNCHANGED CHARACTER_STORE
           ELSE IF character_id \notin CharacterIds
           THEN /\ resp' = AdminReply("admin_update_character", character_id, token, 404,
                                      "Character not found")
                /\ UNCHANGED CHARACTER_STORE
           ELSE /\ CHARACTER_STORE' =
                       [i \in 1..Len(CHARACTER_STORE) |->
                           IF CHARACTER_STORE[i].id = character_id /\ ~IsNone(name)
                           THEN [CHARACTER_STORE[i] EXCEPT !.name = Val(name)]
                           ELSE CHARACTER_STORE[i]]
                /\ resp' = [AdminReply("admin_update_character", character_id, token, 200, "")
                               EXCEPT !.body = Some(_get_character_or_404(character_id)')]

admin_delete_character(character_id, token) ==
        /\ UNCHANGED <<admin_frame, QUIZ_STORE, QUESTION_STORE, issued>>
        /\ IF ~_require_admin(token)
           THEN /\ resp' = Forbidden("admin_delete_character", character_id, token)
                /\ UNCHANGED CHARACTER_STORE
           ELSE IF character_id \notin CharacterIds
           THEN /\ resp' = AdminReply("admin_delete_character", character_id, token, 404,
                                      "Character not found")
                /\ UNCHANGED CHARACTER_STORE
           ELSE /\ CHARACTER_STORE' =
                       SelectSeq(CHARACTER_STORE, LAMBDA c : c.id # character_id)
                /\ resp' = AdminReply("admin_delete_character", character_id, token, 200, "")

admin_list_quizzes(token) ==
        /\ UNCHANGED <<now, stores, aux>>
        /\ IF ~_require_admin(token)
           THEN resp' = Forbidden("admin_list_quizzes", "", token)
           ELSE resp' = [AdminReply("admin_list_quizzes", "", token, 200, "") EXCEPT
                            !.body = Some(QUIZ_STORE)]

\* payload.question_ids is stored as sent: the ids are not looked up
admin_create_quiz(qz_id, question_ids, token) ==
        /\ UNCHANGED <<admin_frame, QUESTION_STORE, CHARACTER_STORE>>
        /\ IF ~_require_admin(token)
           THEN /\ resp' = Forbidden("admin_create_quiz", "", token)
                /\ UNCHANGED <<QUIZ_STORE, issued>>
           ELSE /\ qz_id \notin issued
                /\ issued' = issued \cup {qz_id}
                /\ QUIZ_STORE' = QUIZ_STORE @@ (qz_id :> [question_ids |-> question_ids])
                /\ resp' = [AdminReply("admin_create_quiz", qz_id, token, 200, "") EXCEPT
                               !.body = Some([question_ids |-> question_ids])]

admin_update_quiz(quiz_id, question_ids, token) ==
        /\ UNCHANGED <<admin_frame, QUESTION_STORE, CHARACTER_STORE, issued>>
        /\ IF ~_require_admin(token)
           THEN /\ resp' = Forbidden("admin_update_quiz", quiz_id, token)
                /\ UNCHANGED QUIZ_STORE
           ELSE IF ~HasQuiz(quiz_id)
           THEN /\ resp' = AdminReply("admin_update_quiz", quiz_id, token, 404,
                                      "Quiz not found")
                /\ UNCHANGED QUIZ_STORE
           ELSE /\ QUIZ_STORE' =
                       [QUIZ_STORE EXCEPT ![quiz_id].question_ids =
                           IF IsNone(question_ids) THEN @ ELSE Val(question_ids)]
                /\ resp' = [AdminReply("admin_update_quiz", quiz_id, token, 200, "") EXCEPT
                               !.body = Some(QUIZ_STORE'[quiz_id])]

admin_delete_quiz(quiz_id, token) ==
        /\ UNCHANGED <<admin_frame, QUESTION_STORE, CHARACTER_STORE, issued>>
        /\ IF ~_require_admin(token)
           THEN /\ resp' = Forbidden("admin_delete_quiz", quiz_id, token)
                /\ UNCHANGED QUIZ_STORE
           ELSE IF ~HasQuiz(quiz_id)
           THEN /\ resp' = AdminReply("admin_delete_quiz", quiz_id, token, 404,
                                      "Quiz not found")
                /\ UNCHANGED QUIZ_STORE
           ELSE /\ QUIZ_STORE' = Without(QUIZ_STORE, quiz_id)
                /\ resp' = AdminReply("admin_delete_quiz", quiz_id, token, 200, "")

(***************************************************************************)
(* The session lifecycle over the seeded catalog, with the clock.           *)
(***************************************************************************)
Req_create_session ==
    \E session_id \in SessionIds, ttl_minutes \in TTLs :
        /\ create_session(session_id, ttl_minutes)
        /\ UNCHANGED aux

Req_submit_answer ==
    \E session_id \in ReqSessionIds, quiz_id \in QuizIdInputs,
       question_id \in QuestionIdInputs, choice_id \in ChoiceIdInputs :
        /\ submit_answer(session_id, quiz_id, question_id, choice_id)
        /\ UNCHANGED aux

Req_compute_match == \E session_id \in ReqSessionIds :
        /\ compute_match(session_id)
        /\ UNCHANGED aux

Req_upload_selfie ==
    \E session_id \in ReqSessionIds, content_type \in ContentTypes :
        /\ upload_selfie(session_id, content_type)
        /\ UNCHANGED aux

Req_generate_portrait == \E session_id \in ReqSessionIds :
        /\ generate_portrait(session_id)
        /\ UNCHANGED aux

Req_get_result == \E session_id \in ReqSessionIds :
        /\ get_result(session_id)
        /\ UNCHANGED aux

Next ==
    \/ Tick
    \/ Req_create_session
    \/ Req_submit_answer
    \/ Req_compute_match
    \/ Req_upload_selfie
    \/ Req_generate_portrait
    \/ Req_get_result

Spec == Init /\ [][Next]_vars

(***************************************************************************)
(* The same handlers while an admin deletes characters.  The clock is held, *)
(* sessions are created with the default ttl and selfies are PNGs.          *)
(***************************************************************************)
DefaultTtl == 60

Cat_create_session == \E session_id \in SessionIds :
        /\ create_session(session_id, DefaultTtl)
        /\ UNCHANGED aux

Cat_submit_answer ==
    \E session_id \in SessionIds, question_id \in QuestionIdInputs,
       choice_id \in ChoiceIdInputs :
        /\ submit_answer(session_id, "default", question_id, choice_id)
        /\ UNCHANGED aux

Cat_compute_match == \E session_id \in SessionIds :
        /\ compute_match(session_id)
        /\ UNCHANGED aux

Cat_upload_selfie == \E session_id \in SessionIds :
        /\ upload_selfie(session_id, "image/png")
        /\ UNCHANGED aux

Cat_generate_portrait == \E session_id \in SessionIds :
        /\ generate_portrait(session_id)
        /\ UNCHANGED aux

Cat_get_result == \E session_id \in SessionIds :
        /\ get_result(session_id)
        /\ UNCHANGED aux

Cat_admin_delete_character ==
    \E character_id \in CharacterIdInputs, token \in Tokens :
        admin_delete_character(character_id, token)

NextCatalog ==
    \/ Cat_create_session
    \/ Cat_submit_answer
    \/ Cat_compute_match
    \/ Cat_upload_selfie
    \/ Cat_generate_portrait
    \/ Cat_get_result
    \/ Cat_admin_delete_character

SpecCatalog == Init /\ [][NextCatalog]_vars

(***************************************************************************)
(* Scoring over a catalog whose weights an admin has set: three questions   *)
(* of one choice each.  Big is the float that absorbs an added 1 (2^53 for  *)
(* the code's doubles: 2^53 + 1.0 == 2^53).  Two clients answer the three   *)
(* questions in any order.                                                  *)
(***************************************************************************)
Big == Pow2(MantBits)

OrderSessionIds == {"s1", "s2"}
OrderQuestionIds == {"q1", "q2", "q3"}
LukeWeights == { [q1 |-> Big, q2 |-> 1, q3 |-> 1], [q1 |-> 1, q2 |-> 1, q3 |-> 1] }

OrderQuestions(w) ==
    [q \in OrderQuestionIds |->
        [choices |-> << [id |-> "a",
                         weights |-> IF q = "q1"
                                     THEN ("vader" :> Big) @@ ("luke" :> w[q])
                                     ELSE ("luke" :> w[q])] >>,
         order |-> IF q = "q1" THEN 1 ELSE IF q = "q2" THEN 2 ELSE 3]]

InitOrder ==
    /\ now = 0
    /\ QUIZ_STORE = SeedQuizzes
    /\ \E w \in LukeWeights : QUESTION_STORE = OrderQuestions(w)
    /\ CHARACTER_STORE = SeedCharacters
    /\ SESSION_STORE = <<>>
    /\ RESULT_STORE = <<>>
    /\ blobs = {}
    /\ issued = {}
    /\ threads = NoThreads
    /\ resp = NoResp

Ord_create_session ==
    \E session_id \in OrderSessionIds :
        /\ create_session(session_id, DefaultTtl)
        /\ UNCHANGED aux

Ord_submit_answer ==
    \E session_id \in OrderSessionIds, question_id \in OrderQuestionIds :
        /\ submit_answer(session_id, "default", question_id, "a")
        /\ UNCHANGED aux

Ord_compute_match == \E session_id \in OrderSessionIds :
        /\ compute_match(session_id)
        /\ UNCHANGED aux

NextOrder ==
    \/ Ord_create_session
    \/ Ord_submit_answer
    \/ Ord_compute_match

SpecOrder == InitOrder /\ [][NextOrder]_vars

(***************************************************************************)
(* The catalog under the admin surface, with the public quiz reads.  Ids    *)
(* in the requests are a seeded id, an id a create may return and an id     *)
(* that never exists.                                                       *)
(***************************************************************************)
HexIds == {"u1", "u2"}       \* the hex ids uuid4 may give
Rewritten == << [id |-> "c1", weights |-> ("leia" :> 2)] >>
ChoicesInputs == {None, Some(Rewritten)}
NameInputs == {None, Some("Ben Solo")}
QuestionIdsInputs == {None, Some(<<"q2", "u1">>)}
AdminQuestionIds == {"q1", "u1", "q9"}
AdminCharacterIds == {"luke", "u1", "rey"}
AdminQuizIds == {"default", "u1", "nope"}

NextAdmin ==
    \/ list_quizzes
    \/ \E quiz_id \in AdminQuizIds : get_quiz(quiz_id)
    \/ \E quiz_id \in AdminQuizIds : get_quiz_questions(quiz_id)
    \/ \E token \in Tokens : admin_auth(token)
    \/ \E token \in Tokens : admin_list_questions(token)
    \/ \E qid \in HexIds, token \in Tokens : admin_create_question(qid, Rewritten, 3, token)
    \/ \E question_id \in AdminQuestionIds, choices \in ChoicesInputs, token \in Tokens :
          admin_update_question(question_id, choices, None, token)
    \/ \E question_id \in AdminQuestionIds, token \in Tokens :
          admin_delete_question(question_id, token)
    \/ \E token \in Tokens : admin_list_characters(token)
    \/ \E cid \in HexIds, token \in Tokens : admin_create_character(cid, "Rey", token)
    \/ \E character_id \in AdminCharacterIds, name \in NameInputs, token \in Tokens :
          admin_update_character(character_id, name, token)
    \/ \E character_id \in AdminCharacterIds, token \in Tokens :
          admin_delete_character(character_id, token)
    \/ \E token \in Tokens : admin_list_quizzes(token)
    \/ \E qz_id \in HexIds, token \in Tokens : admin_create_quiz(qz_id, <<"q1">>, token)
    \/ \E quiz_id \in AdminQuizIds, question_ids \in QuestionIdsInputs, token \in Tokens :
          admin_update_quiz(quiz_id, question_ids, token)
    \/ \E quiz_id \in AdminQuizIds, token \in Tokens : admin_delete_quiz(quiz_id, token)

SpecAdmin == Init /\ [][NextAdmin]_vars

(***************************************************************************)
(* One client taking the quiz while the admin edits what the quiz refers    *)
(* to: the weights of q1, question q1, character luke, the quiz itself.     *)
(***************************************************************************)
EditQuestionIds == {"q1", "q2"}
EditChoiceIds == {"c1", "c2", "c6"}

NextEdit ==
    \/ Cat_create_session
    \/ \E question_id \in EditQuestionIds, choice_id \in EditChoiceIds :
          submit_answer("s1", "default", question_id, choice_id) /\ UNCHANGED aux
    \/ Cat_compute_match
    \/ Cat_get_result
    \/ get_quiz("default")
    \/ get_quiz_questions("default")
    \/ admin_update_question("q1", Some(Rewritten), None, ADMIN_TOKEN)
    \/ admin_delete_question("q1", ADMIN_TOKEN)
    \/ admin_update_character("luke", Some("Ben Solo"), ADMIN_TOKEN)
    \/ admin_delete_character("luke", ADMIN_TOKEN)
    \/ admin_delete_quiz("default", ADMIN_TOKEN)

SpecEdit == Init /\ [][NextEdit]_vars

(***************************************************************************)
(* The handlers statement by statement.  A handler's reads up to its first  *)
(* write are one step (what they read is not written by the handlers that   *)
(* run beside it here); each write is a step of its own.  A request that is *)
(* refused answers in its first step.                                       *)
(***************************************************************************)
At(t, op, pc) == threads[t].op = op /\ threads[t].pc = pc

Enter(t, op, pc, session_id, req) ==
    threads' = [threads EXCEPT ![t] = [Idle EXCEPT !.op = op, !.pc = pc,
                                                   !.sid = session_id, !.req = req]]

Goto(t, pc) == threads' = [threads EXCEPT ![t].pc = pc]

Return(t) == threads' = [threads EXCEPT ![t] = Idle]

\* lines 348-354
submit_answer_begin(t, session_id, quiz_id, question_id, choice_id) ==
        /\ threads[t] = Idle
        /\ UNCHANGED <<now, stores, issued>>
        /\ IF _get_session_or_404(session_id) # 0
           THEN resp' = SessionError("submit_answer", session_id) /\ UNCHANGED threads
           ELSE IF ~HasQuiz(quiz_id)
           THEN /\ resp' = Reply("submit_answer", session_id, 404, "Quiz not found")
                /\ UNCHANGED threads
           ELSE IF ~HasQuestion(question_id)
           THEN /\ resp' = Reply("submit_answer", session_id, 404, "Question not found")
                /\ UNCHANGED threads
           ELSE IF ~ValidChoice(QUESTION_STORE[question_id], choice_id)
           THEN /\ resp' = Reply("submit_answer", session_id, 400,
                                 "Invalid choice for question")
                /\ UNCHANGED threads
           ELSE /\ Enter(t, "submit_answer", "answers", session_id,
                         Some([quiz_id |-> quiz_id, question_id |-> question_id,
                               choice_id |-> choice_id]))
                /\ UNCHANGED resp

\* line 356: session["answers"][payload.question_id] = payload.choice_id
submit_answer_set_answer(t) ==
        /\ At(t, "submit_answer", "answers")
        /\ SESSION_STORE' =
               [SESSION_STORE EXCEPT ![threads[t].sid].answers =
                   DictSet(@, Val(threads[t].req).question_id, Val(threads[t].req).choice_id)]
        /\ Goto(t, "quiz_id")
        /\ UNCHANGED <<now, catalog, RESULT_STORE, blobs, issued, resp>>

\* line 357: session["quiz_id"] = payload.quiz_id
submit_answer_set_quiz(t) ==
        /\ At(t, "submit_answer", "quiz_id")
        /\ SESSION_STORE' =
               [SESSION_STORE EXCEPT ![threads[t].sid].quiz_id =
                   Some(Val(threads[t].req).quiz_id)]
        /\ Goto(t, "scored")
        /\ UNCHANGED <<now, catalog, RESULT_STORE, blobs, issued, resp>>

\* lines 358-359: session["scored"] = False; return
submit_answer_set_scored(t) ==
        /\ At(t, "submit_answer", "scored")
        /\ SESSION_STORE' = [SESSION_STORE EXCEPT ![threads[t].sid].scored = FALSE]
        /\ resp' = [Reply("submit_answer", threads[t].sid, 200, "") EXCEPT
                       !.req = threads[t].req]
        /\ Return(t)
        /\ UNCHANGED <<now, catalog, RESULT_STORE, blobs, issued>>

\* lines 389-392
compute_match_begin(t, session_id) ==
        /\ threads[t] = Idle
        /\ UNCHANGED <<now, stores, issued>>
        /\ IF _get_session_or_404(session_id) # 0
           THEN resp' = SessionError("compute_match", session_id) /\ UNCHANGED threads
           ELSE IF NoQuizSelected(SESSION_STORE[session_id])
           THEN /\ resp' = Reply("compute_match", session_id, 400,
                                 "No quiz selected in session")
                /\ UNCHANGED threads
           ELSE /\ Enter(t, "compute_match", "scores", session_id,
                         Some([quiz_id |-> Val(SESSION_STORE[session_id].quiz_id)]))
                /\ UNCHANGED resp

\* lines 394-408: scores = _compute_scores(session) ... result = MatchResult(...)
compute_match_scores(t) ==
        /\ At(t, "compute_match", "scores")
        /\ UNCHANGED <<now, stores, issued>>
        /\ IF ScoresRaise(SESSION_STORE[threads[t].sid])
           THEN /\ resp' = Reply("compute_match", threads[t].sid, 404, "Question not found")
                /\ Return(t)
           ELSE /\ threads' =
                       [threads EXCEPT ![t].pc = "store",
                                       ![t].result =
                                           Some(MatchResult(threads[t].sid,
                                                    Val(threads[t].req).quiz_id,
                                                    _compute_scores(SESSION_STORE[threads[t].sid])))]
                /\ UNCHANGED resp

\* lines 411-412: RESULT_STORE[session_id]["match"] = result.model_dump()
compute_match_store(t) ==
        /\ At(t, "compute_match", "store")
        /\ RESULT_STORE' = StoreMatch(threads[t].sid, Val(threads[t].result))
        /\ Goto(t, "scored")
        /\ UNCHANGED <<now, catalog, SESSION_STORE, blobs, issued, resp>>

\* lines 413-414: session["scored"] = True; return result
compute_match_set_scored(t) ==
        /\ At(t, "compute_match", "scored")
        /\ SESSION_STORE' = [SESSION_STORE EXCEPT ![threads[t].sid].scored = TRUE]
        /\ resp' = [Reply("compute_match", threads[t].sid, 200, "") EXCEPT
                       !.match = threads[t].result]
        /\ Return(t)
        /\ UNCHANGED <<now, catalog, RESULT_STORE, blobs, issued>>

(***************************************************************************)
(* One session whose client sends answers and match requests without        *)
(* waiting for the responses: two requests can be in progress at a time.    *)
(***************************************************************************)
ConcQuestionIds == {"q1", "q2"}
ConcChoiceIds == {"c1", "c2", "c6"}

NextConc ==
    \/ Cat_create_session
    \/ \E t \in Threads, question_id \in ConcQuestionIds, choice_id \in ConcChoiceIds :
          submit_answer_begin(t, "s1", "default", question_id, choice_id)
    \/ \E t \in Threads : submit_answer_set_answer(t)
    \/ \E t \in Threads : submit_answer_set_quiz(t)
    \/ \E t \in Threads : submit_answer_set_scored(t)
    \/ \E t \in Threads : compute_match_begin(t, "s1")
    \/ \E t \in Threads : compute_match_scores(t)
    \/ \E t \in Threads : compute_match_store(t)
    \/ \E t \in Threads : compute_match_set_scored(t)

SpecConc == Init /\ [][NextConc]_vars

(***************************************************************************)
(* upload_selfie and generate_portrait statement by statement.  A file      *)
(* exists from its open(); between open() and write() it is empty, and      *)
(* `await file.read()` lets the other requests run meanwhile.               *)
(***************************************************************************)
\* (mutant) the reference is tracked first, the file written afterwards
UploadOrder_track_first == <<"track", "open", "write", "return">>

\* lines 440, 442, 446, 448 in the order the handler runs them
UploadOrder == <<"open", "write", "track", "return">>

\* lines 482, 483, 486-487, 488
GenerateOrder == <<"open", "copy", "record", "return">>

Pos(order, pc) == CHOOSE i \in 1..Len(order) : order[i] = pc

After(order, pc) == order[Pos(order, pc) + 1]

\* the uuid4().hex of an upload's file name: the n-th name given out
UploadNames == 1..(MaxUploads + 1)

\* lines 430-438
upload_selfie_begin(t, session_id, content_type, hex) ==
        /\ threads[t] = Idle
        /\ UNCHANGED <<now, stores>>
        /\ IF _get_session_or_404(session_id) # 0
           THEN /\ resp' = SessionError("upload_selfie", session_id)
                /\ UNCHANGED <<threads, issued>>
           ELSE IF content_type \notin AllowedTypes
           THEN /\ resp' = Reply("upload_selfie", session_id, 400, "Unsupported file type")
                /\ UNCHANGED <<threads, issued>>
           ELSE /\ hex \notin issued
                /\ issued' = issued \cup {hex}
                /\ threads' =
                       [threads EXCEPT ![t] =
                           [Idle EXCEPT !.op = "upload_selfie", !.pc = UploadOrder[1],
                                        !.sid = session_id,
                                        !.path = Some(<<"uploads", session_id, hex,
                                                        Ext(content_type)>>)]]
                /\ UNCHANGED resp

\* line 440: open(fpath, "wb")
upload_selfie_open(t) ==
        /\ At(t, "upload_selfie", "open")
        /\ blobs' = blobs \cup {Val(threads[t].path)}
        /\ Goto(t, After(UploadOrder, "open"))
        /\ UNCHANGED <<now, catalog, SESSION_STORE, RESULT_STORE, issued, resp>>

\* lines 441-442: chunk = await file.read(); out.write(chunk); the file is closed
upload_selfie_write(t) ==
        /\ At(t, "upload_selfie", "write")
        /\ Goto(t, After(UploadOrder, "write"))
        /\ UNCHANGED <<now, stores, issued, resp>>

\* line 441 raises (the client went away): the with block closes the empty
\* file and the request ends without line 446
upload_selfie_abort(t) ==
        /\ At(t, "upload_selfie", "write")
        /\ resp' = Reply("upload_selfie", threads[t].sid, 500, "Internal Server Error")
        /\ Return(t)
        /\ UNCHANGED <<now, stores, issued>>

\* (mutant) the new reference goes to the front
upload_selfie_track_front(t) ==
        /\ At(t, "upload_selfie", "track")
        /\ SESSION_STORE' =
               [SESSION_STORE EXCEPT ![threads[t].sid].uploads =
                   <<Val(threads[t].path)>> \o @]
        /\ Goto(t, After(UploadOrder, "track"))
        /\ UNCHANGED <<now, catalog, RESULT_STORE, blobs, issued, resp>>

\* line 446: session["uploads"].append(rel_path)
upload_selfie_track(t) ==
        /\ At(t, "upload_selfie", "track")
        /\ SESSION_STORE' =
               [SESSION_STORE EXCEPT ![threads[t].sid].uploads =
                   Append(@, Val(threads[t].path))]
        /\ Goto(t, After(UploadOrder, "track"))
        /\ UNCHANGED <<now, catalog, RESULT_STORE, blobs, issued, resp>>

\* line 448
upload_selfie_return(t) ==
        /\ At(t, "upload_selfie", "return")
        /\ resp' = [Reply("upload_selfie", threads[t].sid, 200, "") EXCEPT
                       !.path = threads[t].path]
        /\ Return(t)
        /\ UNCHANGED <<now, stores, issued>>

\* lines 461-480; the worker's req is src_path (lines 471-473), path is out_path
generate_portrait_begin(t, session_id) ==
        /\ threads[t] = Idle
        /\ UNCHANGED <<now, stores, issued>>
        /\ IF _get_session_or_404(session_id) # 0
           THEN resp' = SessionError("generate_portrait", session_id) /\ UNCHANGED threads
           ELSE IF SESSION_STORE[session_id].uploads = <<>>
           THEN /\ resp' = Reply("generate_portrait", session_id, 400,
                                 "No selfie uploaded for session")
                /\ UNCHANGED threads
           ELSE IF NoUsableMatch(session_id)
           THEN /\ resp' = Reply("generate_portrait", session_id, 400,
                                 "No match computed for session")
                /\ UNCHANGED threads
           ELSE IF Last(SESSION_STORE[session_id].uploads) \notin blobs
           THEN /\ resp' = Reply("generate_portrait", session_id, 404,
                                 "Uploaded file not found on server")
                /\ UNCHANGED threads
           ELSE /\ threads' =
                       [threads EXCEPT ![t] =
                           [Idle EXCEPT !.op = "generate_portrait", !.pc = GenerateOrder[1],
                                        !.sid = session_id,
                                        !.req = Some(Last(SESSION_STORE[session_id].uploads)),
                                        !.path = Some(PortraitPath(session_id))]]
                /\ UNCHANGED resp

\* line 482: open(out_path, "wb") makes the file, or empties the one there
generate_portrait_open(t) ==
        /\ At(t, "generate_portrait", "open")
        /\ blobs' = blobs \cup {Val(threads[t].path)}
        /\ Goto(t, After(GenerateOrder, "open"))
        /\ UNCHANGED <<now, catalog, SESSION_STORE, RESULT_STORE, issued, resp>>

\* line 483: out.write(inp.read()); both files are closed
generate_portrait_copy(t) ==
        /\ At(t, "generate_portrait", "copy")
        /\ Goto(t, After(GenerateOrder, "copy"))
        /\ UNCHANGED <<now, stores, issued, resp>>

\* lines 486-487
generate_portrait_record(t) ==
        /\ At(t, "generate_portrait", "record")
        /\ RESULT_STORE' = StorePortrait(threads[t].sid, Val(threads[t].path))
        /\ Goto(t, After(GenerateOrder, "record"))
        /\ UNCHANGED <<now, catalog, SESSION_STORE, blobs, issued, resp>>

\* line 488
generate_portrait_return(t) ==
        /\ At(t, "generate_portrait", "return")
        /\ resp' = [Reply("generate_portrait", threads[t].sid, 200, "") EXCEPT
                       !.path = threads[t].path]
        /\ Return(t)
        /\ UNCHANGED <<now, stores, issued>>

(***************************************************************************)
(* One session that answers, gets its match, and uploads and generates      *)
(* with up to two of those requests in progress at a time.                  *)
(***************************************************************************)
NextMedia ==
    \/ Cat_create_session
    \/ submit_answer("s1", "default", "q1", "c1") /\ UNCHANGED aux
    \/ Cat_compute_match
    \/ Cat_get_result
    \/ \E t \in Threads, content_type \in {"image/png", "image/gif"}, hex \in UploadNames :
          upload_selfie_begin(t, "s1", content_type, hex)
    \/ \E t \in Threads : upload_selfie_open(t)
    \/ \E t \in Threads : upload_selfie_write(t)
    \/ \E t \in Threads : upload_selfie_abort(t)
    \/ \E t \in Threads : upload_selfie_track(t)
    \/ \E t \in Threads : upload_selfie_return(t)
    \/ \E t \in Threads : generate_portrait_begin(t, "s1")
    \/ \E t \in Threads : generate_portrait_open(t)
    \/ \E t \in Threads : generate_portrait_copy(t)
    \/ \E t \in Threads : generate_portrait_record(t)
    \/ \E t \in Threads : generate_portrait_return(t)

SpecMedia == Init /\ [][NextMedia]_vars

(***************************************************************************)
(* Two clients, each with a session of its own, one request at a time.      *)
(***************************************************************************)
NextPair ==
    \/ Ord_create_session
    \/ \E session_id \in OrderSessionIds, choice_id \in {"c1", "c2"} :
          submit_answer(session_id, "default", "q1", choice_id) /\ UNCHANGED aux
    \/ Ord_compute_match
    \/ \E session_id \in OrderSessionIds :
          upload_selfie(session_id, "image/png") /\ UNCHANGED aux
    \/ \E session_id \in OrderSessionIds : generate_portrait(session_id) /\ UNCHANGED aux
    \/ \E session_id \in OrderSessionIds : get_result(session_id) /\ UNCHANGED aux

SpecPair == Init /\ [][NextPair]_vars

(***************************************************************************)
(* Sessions created with every kind of ttl_minutes while the clock runs:    *)
(* negative, zero, small, and so large that the expiry is out of range.     *)
(***************************************************************************)
TtlInputs == {-1, 0, 1, DatetimeMax - 1, DatetimeMax + 1}

NextTtl ==
    \/ Tick
    \/ \E session_id \in OrderSessionIds, ttl_minutes \in TtlInputs :
          create_session(session_id, ttl_minutes) /\ UNCHANGED aux
    \/ \E session_id \in OrderSessionIds : get_result(session_id) /\ UNCHANGED aux

SpecTtl == Init /\ [][NextTtl]_vars

(***************************************************************************)
(* The display order of a quiz: the admin sets the order field of the       *)
(* questions and the question_ids of the quiz, a client reads the questions.*)
(***************************************************************************)
OrderInputs == {1, 2}
DisplayIdsInputs == {<<"q1", "q2">>, <<"q2", "q1">>, <<"q2", "u1", "q1">>}

NextDisplay ==
    \/ get_quiz_questions("default")
    \/ \E order \in OrderInputs :
          admin_create_question("u1", Rewritten, order, ADMIN_TOKEN)
    \/ \E question_id \in EditQuestionIds, order \in OrderInputs :
          admin_update_question(question_id, None, Some(order), ADMIN_TOKEN)
    \/ \E question_ids \in DisplayIdsInputs :
          admin_update_quiz("default", Some(question_ids), ADMIN_TOKEN)

SpecDisplay == Init /\ [][NextDisplay]_vars

(***************************************************************************)
(* Properties.                                                              *)
(***************************************************************************)
LookupOps ==
    {"submit_answer", "compute_match", "upload_selfie", "generate_portrait", "get_result"}

Ok(op) == resp.op = op /\ resp.status = 200

\* C1: an operation that looks the session up answers 410 Expired whenever the
\* session is in the store with expires_at in the past, and answers
\* 404 "Session not found" only for an id that is not in the store.
C1_ExpiredNeverNotFound ==
    resp.op \in LookupOps =>
        /\ (HasSession(resp.sid) /\ IsExpired(SESSION_STORE[resp.sid]))
               => (resp.status = 410 /\ resp.detail = "Session expired")
        /\ (resp.status = 404 /\ resp.detail = "Session not found")
               => ~HasSession(resp.sid)
        /\ ~HasSession(resp.sid) => resp.status = 404

C1_Witness ==
    /\ resp.op = "generate_portrait"
    /\ resp.status = 410
    /\ HasSession(resp.sid)
    /\ IsExpired(SESSION_STORE[resp.sid])

\* C2: right after a successful submit_answer the session's scored flag is
\* false, and a step in which a session's scored flag becomes true (from false,
\* or for a new session) is a successful compute_match on that session.
C2_ScoredOnlyByMatch ==
    [][ /\ (resp'.op = "submit_answer" /\ resp'.status = 200)
             => ~SESSION_STORE'[resp'.sid].scored
        /\ \A s \in DOMAIN SESSION_STORE' :
             (/\ SESSION_STORE'[s].scored
              /\ (s \notin DOMAIN SESSION_STORE \/ ~SESSION_STORE[s].scored))
                => (resp'.op = "compute_match" /\ resp'.sid = s /\ resp'.status = 200)
      ]_vars

\* a successful submit_answer on a session that had been scored before
C2_Witness ==
    /\ Ok("submit_answer")
    /\ ~IsNone(ResultOf(resp.sid).match)
    /\ ~SESSION_STORE[resp.sid].scored

\* the weight a choice of a question gives a character (0 when it names none)
WeightOf(question_id, choice_id, ch) ==
    LET choices == QUESTION_STORE[question_id].choices
        hits == {i \in 1..Len(choices) : choices[i].id = choice_id}
    IN  IF hits = {} THEN 0
        ELSE LET w == choices[CHOOSE i \in hits : \A j \in hits : i <= j].weights
             IN  IF ch \in DOMAIN w THEN w[ch] ELSE 0

\* the float sum of a character's weights over the answers, in their order
RECURSIVE SumOfWeights(_, _)
SumOfWeights(answers, ch) ==
    IF answers = <<>> THEN 0
    ELSE fadd(SumOfWeights(SubSeq(answers, 1, Len(answers) - 1), ch),
              WeightOf(answers[Len(answers)].k, answers[Len(answers)].v, ch))

ScoreIn(scores, ch) ==
    scores[CHOOSE i \in 1..Len(scores) : scores[i].character_id = ch].score

\* C3: a successful submit_answer(question, choice) leaves exactly one answer
\* for that question, the submitted choice, and the other answers as they
\* were; compute_scores then gives every character the sum of the weights of
\* the recorded (last submitted) choices, so that a first answer to a
\* question adds its weight to the earlier score and a later choice for the
\* same question replaces the earlier contribution.
C3_LastChoiceCounts ==
    [][ (resp'.op = "submit_answer" /\ resp'.status = 200) =>
          LET s == resp'.sid
              q == Val(resp'.req).question_id
              c == Val(resp'.req).choice_id
              old == SESSION_STORE[s].answers
              new == SESSION_STORE'[s].answers
              before == _compute_scores(SESSION_STORE[s])
              after == _compute_scores(SESSION_STORE'[s])
          IN  /\ DictKeys(new) = DictKeys(old) \cup {q}
              /\ Len(new) = Cardinality(DictKeys(new))
              /\ DictGet(new, q) = c
              /\ \A k \in DictKeys(old) \ {q} : DictGet(new, k) = DictGet(old, k)
              /\ \A ch \in CharacterIds :
                    /\ ScoreIn(after, ch) = SumOfWeights(new, ch)
                    /\ q \notin DictKeys(old)
                         => ScoreIn(after, ch) = fadd(ScoreIn(before, ch), WeightOf(q, c, ch))
      ]_vars

\* q1 answered c2 after a match was computed from the answer q1/c1
C3_Witness ==
    /\ Ok("submit_answer")
    /\ Val(resp.req).question_id = "q1"
    /\ Val(resp.req).choice_id = "c2"
    /\ ~IsNone(ResultOf(resp.sid).match)
    /\ ScoreIn(Val(ResultOf(resp.sid).match).scores, "luke") = 1
    /\ ScoreIn(_compute_scores(SESSION_STORE[resp.sid]), "luke") = 0
    /\ ScoreIn(_compute_scores(SESSION_STORE[resp.sid]), "leia") >= 1

AnswerSet(session) ==
    {<<session.answers[i].k, session.answers[i].v>> : i \in 1..Len(session.answers)}

\* compute_match again, with the answers and the catalog as they were, returns
\* what the previous compute_match stored
C4_Idempotent ==
    [][ \A s \in DOMAIN SESSION_STORE :
          (/\ SESSION_STORE[s].scored
           /\ resp'.op = "compute_match" /\ resp'.sid = s /\ resp'.status = 200)
            => /\ Val(resp'.match).scores = Val(RESULT_STORE[s].match).scores
               /\ Val(resp'.match).top_match = Val(RESULT_STORE[s].match).top_match
               /\ RESULT_STORE' = RESULT_STORE
      ]_vars

\* C4: compute_match repeated without an answer change returns the same
\* ranked list and top match, and two sessions holding the same answers get
\* the same ranking from compute_scores whatever the order in which their
\* answers mappings iterate.
C4_SameAnswersSameRanking ==
    [][ /\ \A s \in DOMAIN SESSION_STORE :
             (/\ SESSION_STORE[s].scored
              /\ resp'.op = "compute_match" /\ resp'.sid = s /\ resp'.status = 200)
               => /\ Val(resp'.match).scores = Val(RESULT_STORE[s].match).scores
                  /\ Val(resp'.match).top_match = Val(RESULT_STORE[s].match).top_match
        /\ \A s, t \in DOMAIN SESSION_STORE' :
             AnswerSet(SESSION_STORE'[s]) = AnswerSet(SESSION_STORE'[t])
               => _compute_scores(SESSION_STORE'[s]) = _compute_scores(SESSION_STORE'[t])
      ]_vars

CatalogPos(character_id) ==
    CHOOSE i \in 1..Len(CHARACTER_STORE) : CHARACTER_STORE[i].id = character_id

\* C5: the ranked list of a successful compute_match has one entry for each
\* character of the catalog and none for any other id, is in non-increasing
\* score order with equal scores in catalog insertion order, and top_match is
\* its first entry; the seeded catalog with answers q1/c1 and q2/c6 gives
\* luke 1.0, leia 1.0, vader 0.0 and a top score of 1.0.
C5_RankedList ==
    Ok("compute_match") =>
        LET m == Val(resp.match)
            sc == m.scores
        IN  /\ Len(sc) = Len(CHARACTER_STORE)
            /\ {sc[i].character_id : i \in 1..Len(sc)} = CharacterIds
            /\ \A i, j \in 1..Len(sc) :
                  i < j => \/ sc[i].score > sc[j].score
                           \/ /\ sc[i].score = sc[j].score
                              /\ CatalogPos(sc[i].character_id) < CatalogPos(sc[j].character_id)
            /\ m.top_match = (IF sc = <<>> THEN None ELSE Some(sc[1]))
            /\ (/\ CHARACTER_STORE = SeedCharacters
                /\ AnswerSet(SESSION_STORE[resp.sid]) = {<<"q1", "c1">>, <<"q2", "c6">>})
                 => /\ sc = << [character_id |-> "luke", score |-> 1],
                                [character_id |-> "leia", score |-> 1],
                                [character_id |-> "vader", score |-> 0] >>
                    /\ Val(m.top_match).score = 1

C5_Witness ==
    /\ Ok("compute_match")
    /\ CHARACTER_STORE = SeedCharacters
    /\ AnswerSet(SESSION_STORE[resp.sid]) = {<<"q1", "c1">>, <<"q2", "c6">>}

\* a ranked list computed while a character named by the chosen weights is gone
C5_DeletedCharacterCase ==
    /\ Ok("compute_match")
    /\ "luke" \notin CharacterIds
    /\ <<"q1", "c1">> \in AnswerSet(SESSION_STORE[resp.sid])

\* C6: compute_match on an empty catalog returns an empty list and no
\* top_match; a top score of exactly 0 gives a top_match and no character;
\* character is present exactly when the top score is above 0 and is then the
\* catalog's character of that id.
C6_TopAndCharacter ==
    Ok("compute_match") =>
        LET m == Val(resp.match)
            top == m.top_match
        IN  /\ CHARACTER_STORE = <<>> => (m.scores = <<>> /\ IsNone(top))
            /\ CHARACTER_STORE # <<>> => ~IsNone(top)
            /\ (~IsNone(top) /\ Val(top).score = 0) => IsNone(m.character)
            /\ ~IsNone(m.character) <=> (~IsNone(top) /\ Val(top).score > 0)
            /\ ~IsNone(m.character) =>
                  /\ Val(m.character).id = Val(top).character_id
                  /\ \E i \in 1..Len(CHARACTER_STORE) : CHARACTER_STORE[i] = Val(m.character)

C6_Witness ==
    /\ Ok("compute_match")
    /\ CHARACTER_STORE = <<>>
    /\ IsNone(Val(resp.match).top_match)

\* a top score of exactly 0 over a catalog that is not empty
C6_ZeroTopCase ==
    /\ Ok("compute_match")
    /\ ~IsNone(Val(resp.match).top_match)
    /\ Val(Val(resp.match).top_match).score = 0
    /\ IsNone(Val(resp.match).character)

\* C7: generate_portrait succeeds only for a session with an upload and a
\* stored match that has a top_match; with no upload it fails with "No selfie
\* uploaded" whether or not a match exists, with an upload and no stored
\* match, or one without top_match, it fails with "No match computed", and a
\* failed call records no portrait.
C7_GeneratePreconditions ==
    [][ resp'.op = "generate_portrait" =>
          LET s == resp'.sid
              live == _get_session_or_404(s) = 0
              uploaded == SESSION_STORE[s].uploads # <<>>
              res == ResultOf(s)
              usable == ~IsNone(res.match) /\ ~IsNone(Val(res.match).top_match)
          IN  /\ resp'.status = 200 => (live /\ uploaded /\ usable)
              /\ (live /\ ~uploaded) =>
                    (resp'.status = 400 /\ resp'.detail = "No selfie uploaded for session")
              /\ (live /\ uploaded /\ ~usable) =>
                    (resp'.status = 400 /\ resp'.detail = "No match computed for session")
              /\ resp'.status # 200 =>
                    (RESULT_STORE' = RESULT_STORE /\ blobs' = blobs /\ IsNone(resp'.path))
              /\ resp'.status = 200 =>
                    (s \in DOMAIN RESULT_STORE' /\ RESULT_STORE'[s].portrait_url = resp'.path)
      ]_vars

\* generate refused for a session with an upload and a match without top_match
C7_Witness ==
    /\ resp.op = "generate_portrait"
    /\ resp.status = 400
    /\ resp.detail = "No match computed for session"
    /\ SESSION_STORE[resp.sid].uploads # <<>>
    /\ ~IsNone(ResultOf(resp.sid).match)
    /\ IsNone(Val(ResultOf(resp.sid).match).top_match)
    /\ IsNone(ResultOf(resp.sid).portrait_url)

\* generate refused for lack of an upload although a usable match is stored
C7_NoUploadCase ==
    /\ resp.op = "generate_portrait"
    /\ resp.detail = "No selfie uploaded for session"
    /\ ~NoUsableMatch(resp.sid)

C7_SuccessCase == Ok("generate_portrait")

\* C8: compute_match on a live session whose quiz_id is null (no answer was
\* ever recorded) fails with 400 "No quiz selected in session", stores no
\* result for the session and leaves scored false.
C8_NoQuizSelected ==
    [][ (/\ resp'.op = "compute_match"
         /\ _get_session_or_404(resp'.sid) = 0
         /\ IsNone(SESSION_STORE[resp'.sid].quiz_id))
          => /\ resp'.status = 400
             /\ resp'.detail = "No quiz selected in session"
             /\ IsNone(resp'.match)
             /\ SESSION_STORE[resp'.sid].answers = <<>>
             /\ RESULT_STORE' = RESULT_STORE
             /\ resp'.sid \notin DOMAIN RESULT_STORE'
             /\ SESSION_STORE' = SESSION_STORE
             /\ ~SESSION_STORE'[resp'.sid].scored
      ]_vars

C8_Witness ==
    /\ resp.op = "compute_match"
    /\ resp.status = 400
    /\ resp.detail = "No quiz selected in session"
    /\ IsNone(SESSION_STORE[resp.sid].quiz_id)

\* C9: get_result on a live session fails with 404 "No result for session"
\* exactly when no compute_match has succeeded for it, and otherwise returns
\* the match stored by the latest successful compute_match with the recorded
\* portrait_url merged in.  The stored match is absent at start, is written by
\* every successful compute_match and changes in no other step.
C9_ResultOfLastMatch ==
    [][ /\ (resp'.op = "get_result" /\ _get_session_or_404(resp'.sid) = 0) =>
             LET res == ResultOf(resp'.sid)
             IN  IF IsNone(res.match)
                 THEN /\ resp'.status = 404
                      /\ resp'.detail = "No result for session"
                      /\ IsNone(resp'.match)
                 ELSE /\ resp'.status = 200
                      /\ Val(resp'.match).portrait_url = res.portrait_url
                      /\ [Val(resp'.match) EXCEPT !.portrait_url = None] = Val(res.match)
        /\ resp'.op = "get_result" => RESULT_STORE' = RESULT_STORE
        /\ (resp'.op = "compute_match" /\ resp'.status = 200) =>
             /\ resp'.sid \in DOMAIN RESULT_STORE'
             /\ RESULT_STORE'[resp'.sid].match = resp'.match
             /\ ~IsNone(resp'.match)
        /\ \A s \in DOMAIN RESULT_STORE' :
             (s \notin DOMAIN RESULT_STORE \/ RESULT_STORE'[s].match # RESULT_STORE[s].match)
               => /\ resp'.op = "compute_match" /\ resp'.sid = s /\ resp'.status = 200
                  /\ RESULT_STORE'[s].match = resp'.match
        /\ DOMAIN RESULT_STORE \subseteq DOMAIN RESULT_STORE'
      ]_vars

\* a result returned with the portrait of an earlier generate_portrait
C9_Witness ==
    /\ Ok("get_result")
    /\ ~IsNone(Val(resp.match).portrait_url)
    /\ Val(resp.match).portrait_url = Some(PortraitPath(resp.sid))

C9_NoResultCase ==
    /\ resp.op = "get_result"
    /\ resp.status = 404
    /\ resp.detail = "No result for session"

\* C10: a successful submit_answer was sent for a session in the store and
\* not expired, a quiz and a question in the catalog and a choice of that
\* question; a failed one answers 404, 410 or 400 and leaves the session
\* store as it was; answers change in no other step.
C10_AnswerValidated ==
    [][ /\ (resp'.op = "submit_answer" /\ resp'.status = 200) =>
             LET r == Val(resp'.req)
             IN  /\ _get_session_or_404(resp'.sid) = 0
                 /\ r.quiz_id \in DOMAIN QUIZ_STORE
                 /\ r.question_id \in DOMAIN QUESTION_STORE
                 /\ \E i \in 1..Len(QUESTION_STORE[r.question_id].choices) :
                       QUESTION_STORE[r.question_id].choices[i].id = r.choice_id
                 /\ AnswerSet(SESSION_STORE'[resp'.sid]) \ AnswerSet(SESSION_STORE[resp'.sid])
                       \subseteq {<<r.question_id, r.choice_id>>}
                 /\ <<r.question_id, r.choice_id>> \in AnswerSet(SESSION_STORE'[resp'.sid])
        /\ (resp'.op = "submit_answer" /\ resp'.status # 200) =>
             /\ resp'.status \in {404, 410, 400}
             /\ SESSION_STORE' = SESSION_STORE
        /\ \A s \in DOMAIN SESSION_STORE :
             (\/ SESSION_STORE'[s].answers # SESSION_STORE[s].answers
              \/ SESSION_STORE'[s].quiz_id # SESSION_STORE[s].quiz_id)
               => (resp'.op = "submit_answer" /\ resp'.sid = s /\ resp'.status = 200)
      ]_vars

\* a choice of another question refused for an answered, live session
C10_Witness ==
    /\ resp.op = "submit_answer"
    /\ resp.status = 400
    /\ resp.detail = "Invalid choice for question"
    /\ SESSION_STORE[resp.sid].answers # <<>>

C10_QuizMissingCase == resp.op = "submit_answer" /\ resp.detail = "Quiz not found"

C10_QuestionMissingCase == resp.op = "submit_answer" /\ resp.detail = "Question not found"

C10_ExpiredCase == resp.op = "submit_answer" /\ resp.status = 410

\* C11: a successful generate_portrait on a session that already has a
\* portrait reference replaces it: the result store then holds one reference
\* for the session, under the session's key and equal to the one this call
\* returned, the session's stored match is kept, and a get_result that
\* succeeds returns exactly the reference the store holds.
C11_SecondPortraitReplaces ==
    [][ /\ (resp'.op = "generate_portrait" /\ resp'.status = 200) =>
             LET s == resp'.sid
             IN  /\ resp'.replaced = ResultOf(s).portrait_url
                 /\ s \in DOMAIN RESULT_STORE'
                 /\ RESULT_STORE'[s].portrait_url = resp'.path
                 /\ RESULT_STORE'[s].portrait_url = Some(PortraitPath(s))
                 /\ RESULT_STORE'[s].match = ResultOf(s).match
                 /\ DOMAIN RESULT_STORE' = DOMAIN RESULT_STORE \cup {s}
                 /\ \A o \in DOMAIN RESULT_STORE \ {s} : RESULT_STORE'[o] = RESULT_STORE[o]
                 /\ Val(resp'.path) \in blobs'
        /\ (resp'.op = "get_result" /\ resp'.status = 200) =>
             /\ Val(resp'.match).portrait_url = ResultOf(resp'.sid).portrait_url
             /\ RESULT_STORE' = RESULT_STORE
      ]_vars

\* the second successful generate_portrait of a session
C11_Witness ==
    /\ Ok("generate_portrait")
    /\ ~IsNone(resp.replaced)
    /\ RESULT_STORE[resp.sid].portrait_url = resp.path

Target == Val(resp.req).target

\* C12: the match stored for a session changes only in a successful
\* compute_match on that session: not when an admin rewrites a choice's
\* weights or deletes or renames a question or character, and not in a
\* submit_answer; and get_result returns the ranked list, top_match and
\* character of the stored match, whatever the catalog and the answers have
\* become since.
C12_StoredMatchIsSnapshot ==
    [][ /\ \A s \in DOMAIN RESULT_STORE :
             (resp'.op = "compute_match" /\ resp'.sid = s /\ resp'.status = 200)
             \/ (s \in DOMAIN RESULT_STORE' /\ RESULT_STORE'[s].match = RESULT_STORE[s].match)
        /\ (resp'.op = "get_result" /\ resp'.status = 200) =>
             LET stored == Val(RESULT_STORE[resp'.sid].match)
             IN  /\ Val(resp'.match).scores = stored.scores
                 /\ Val(resp'.match).top_match = stored.top_match
                 /\ Val(resp'.match).character = stored.character
      ]_vars

\* a result returned after the weights of the answered choice were rewritten,
\* the matched character renamed and another answer given
C12_Witness ==
    /\ Ok("get_result")
    /\ "q1" \in DOMAIN QUESTION_STORE
    /\ QUESTION_STORE["q1"].choices = Rewritten
    /\ ~SESSION_STORE[resp.sid].scored
    /\ ~ScoresRaise(SESSION_STORE[resp.sid])
    /\ Val(resp.match).scores # _compute_scores(SESSION_STORE[resp.sid])
    /\ ~IsNone(Val(resp.match).character)
    /\ Val(Val(resp.match).character).name = "Luke Skywalker"
    /\ "luke" \in CharacterIds
    /\ _get_character_or_404("luke").name = "Ben Solo"

\* C13: compute_match on a live session with a quiz selected, one of whose
\* answers names a question that is no longer in the store, fails with 404
\* "Question not found" and leaves the result store and the session store
\* (the stored match and the scored flag with them) as they were.
C13_DanglingAnswerFails ==
    [][ (/\ resp'.op = "compute_match"
         /\ _get_session_or_404(resp'.sid) = 0
         /\ ~IsNone(SESSION_STORE[resp'.sid].quiz_id)
         /\ \E i \in 1..Len(SESSION_STORE[resp'.sid].answers) :
               SESSION_STORE[resp'.sid].answers[i].k \notin DOMAIN QUESTION_STORE)
          => /\ resp'.status = 404
             /\ resp'.detail = "Question not found"
             /\ IsNone(resp'.match)
             /\ RESULT_STORE' = RESULT_STORE
             /\ SESSION_STORE' = SESSION_STORE
      ]_vars

\* the failure on a session that was scored and has a stored match and an
\* answer to a question that is still in the store
C13_Witness ==
    /\ resp.op = "compute_match"
    /\ resp.status = 404
    /\ resp.detail = "Question not found"
    /\ SESSION_STORE[resp.sid].scored
    /\ ~IsNone(ResultOf(resp.sid).match)
    /\ DictKeys(SESSION_STORE[resp.sid].answers) = {"q1", "q2"}
    /\ "q2" \in DOMAIN QUESTION_STORE

\* C14: a successful admin_delete_question or admin_delete_quiz removes the
\* one entry it names and changes nothing else (no quiz's question_ids, no
\* session, no stored result); a quiz that lists a deleted question is still
\* returned by get_quiz, and get_quiz_questions on a quiz in the store fails
\* with 404 "Question not found" exactly when the quiz lists a question that is
\* not in the store.
C14_DeleteDoesNotCascade ==
    [][ /\ (resp'.op = "admin_delete_question" /\ resp'.status = 200) =>
             /\ Val(resp'.req).target \in DOMAIN QUESTION_STORE
             /\ DOMAIN QUESTION_STORE' = DOMAIN QUESTION_STORE \ {Val(resp'.req).target}
             /\ \A q \in DOMAIN QUESTION_STORE' : QUESTION_STORE'[q] = QUESTION_STORE[q]
             /\ UNCHANGED <<QUIZ_STORE, CHARACTER_STORE, SESSION_STORE, RESULT_STORE, blobs>>
        /\ (resp'.op = "admin_delete_quiz" /\ resp'.status = 200) =>
             /\ Val(resp'.req).target \in DOMAIN QUIZ_STORE
             /\ DOMAIN QUIZ_STORE' = DOMAIN QUIZ_STORE \ {Val(resp'.req).target}
             /\ \A q \in DOMAIN QUIZ_STORE' : QUIZ_STORE'[q] = QUIZ_STORE[q]
             /\ UNCHANGED <<QUESTION_STORE, CHARACTER_STORE, SESSION_STORE, RESULT_STORE, blobs>>
        /\ (resp'.op = "get_quiz" /\ Val(resp'.req).target \in DOMAIN QUIZ_STORE) =>
             /\ resp'.status = 200
             /\ resp'.body = Some(QUIZ_STORE[Val(resp'.req).target])
        /\ (resp'.op = "get_quiz_questions" /\ Val(resp'.req).target \in DOMAIN QUIZ_STORE) =>
             LET ids == QUIZ_STORE[Val(resp'.req).target].question_ids
                 dangling == \E i \in 1..Len(ids) : ids[i] \notin DOMAIN QUESTION_STORE
             IN  /\ dangling <=> (resp'.status = 404 /\ resp'.detail = "Question not found")
                 /\ ~dangling <=> resp'.status = 200
                 /\ UNCHANGED stores
      ]_vars

\* get_quiz_questions fails on the quiz that still lists deleted q1, which a
\* session's answers and stored match still refer to
C14_Witness ==
    /\ resp.op = "get_quiz_questions"
    /\ resp.status = 404
    /\ resp.detail = "Question not found"
    /\ "q1" \notin DOMAIN QUESTION_STORE
    /\ QUIZ_STORE[Target].question_ids = <<"q1", "q2">>
    /\ "s1" \in DOMAIN RESULT_STORE
    /\ "q1" \in DictKeys(SESSION_STORE["s1"].answers)
    /\ SESSION_STORE["s1"].quiz_id = Some("default")

\* get_quiz returns the quiz that lists a deleted question
C14_GetQuizCase ==
    /\ Ok("get_quiz")
    /\ \E i \in 1..Len(Val(resp.body).question_ids) :
          Val(resp.body).question_ids[i] \notin DOMAIN QUESTION_STORE

\* a session whose quiz was deleted
C14_QuizDeletedCase ==
    /\ Ok("admin_delete_quiz")
    /\ \E s \in DOMAIN SESSION_STORE : SESSION_STORE[s].quiz_id = Some(Target)

\* C15: no step removes a session or changes its expires_at; a session that
\* is expired is still expired after any step, and an operation that looks up
\* an expired session answers 410 "Session expired" (not 404, not 200) and
\* leaves the session store as it was.
C15_ExpiredStaysExpired ==
    [][ \A s \in DOMAIN SESSION_STORE :
          /\ s \in DOMAIN SESSION_STORE'
          /\ SESSION_STORE'[s].expires_at = SESSION_STORE[s].expires_at
          /\ IsExpired(SESSION_STORE[s]) =>
                /\ IsExpired(SESSION_STORE[s])'
                /\ SESSION_STORE'[s] = SESSION_STORE[s]
                /\ (resp'.op \in LookupOps /\ resp'.sid = s) =>
                      (resp'.status = 410 /\ resp'.detail = "Session expired")
      ]_vars

\* an expired session is refused with everything it had gathered still stored
C15_Witness ==
    /\ resp.op = "get_result"
    /\ resp.status = 410
    /\ IsExpired(SESSION_STORE[resp.sid])
    /\ SESSION_STORE[resp.sid].answers # <<>>
    /\ SESSION_STORE[resp.sid].uploads # <<>>
    /\ SESSION_STORE[resp.sid].scored
    /\ ~IsNone(ResultOf(resp.sid).portrait_url)

AdminOps ==
    {"admin_auth",
     "admin_list_questions", "admin_create_question", "admin_update_question",
     "admin_delete_question",
     "admin_list_characters", "admin_create_character", "admin_update_character",
     "admin_delete_character",
     "admin_list_quizzes", "admin_create_quiz", "admin_update_quiz", "admin_delete_quiz"}

\* C16: an admin operation sent with a token other than the shared secret
\* answers 403 "Forbidden: invalid admin token", returns nothing and leaves
\* every store as it was, whether or not the id it names is in its store; and
\* an admin operation answers 403 only for such a token.
C16_WrongTokenForbidden ==
    [][ resp'.op \in AdminOps =>
          /\ Val(resp'.req).token # ADMIN_TOKEN =>
                /\ resp'.status = 403
                /\ resp'.detail = "Forbidden: invalid admin token"
                /\ IsNone(resp'.body)
                /\ UNCHANGED <<stores, issued>>
          /\ resp'.status = 403 => Val(resp'.req).token # ADMIN_TOKEN
      ]_vars

\* a wrong token on a question id that is not in the store: 403, not 404
C16_Witness ==
    /\ resp.op = "admin_update_question"
    /\ resp.status = 403
    /\ Target \notin DOMAIN QUESTION_STORE
    /\ Val(resp.req).token # ADMIN_TOKEN

C16_DeleteCharacterCase ==
    /\ resp.op = "admin_delete_character"
    /\ resp.status = 403
    /\ Target \notin CharacterIds

C16_CreateQuizCase == resp.op = "admin_create_quiz" /\ resp.status = 403

StoredIds == DOMAIN QUESTION_STORE \cup DOMAIN QUIZ_STORE \cup CharacterIds

\* C17: with the right token, admin_update_question on an id that is not in
\* the store answers 404 "Question not found" and leaves the store as it was;
\* a successful admin create puts the entity it returns under an id that was
\* in no store before the call and touches no other entry; an entry changes or
\* goes only in a successful update or delete of its id, and get_quiz and the
\* admin lists return the entries as the store holds them, so a read after the
\* create returns the entity as created.
C17_UpdateMissingAndCreate ==
    [][ /\ (/\ resp'.op = "admin_update_question"
            /\ Val(resp'.req).token = ADMIN_TOKEN
            /\ Val(resp'.req).target \notin DOMAIN QUESTION_STORE)
             => /\ resp'.status = 404
                /\ resp'.detail = "Question not found"
                /\ QUESTION_STORE' = QUESTION_STORE
        /\ (resp'.op = "admin_create_question" /\ resp'.status = 200) =>
             /\ Val(resp'.req).target \notin StoredIds
             /\ DOMAIN QUESTION_STORE' = DOMAIN QUESTION_STORE \cup {Val(resp'.req).target}
             /\ Some(QUESTION_STORE'[Val(resp'.req).target]) = resp'.body
        /\ (resp'.op = "admin_create_quiz" /\ resp'.status = 200) =>
             /\ Val(resp'.req).target \notin StoredIds
             /\ DOMAIN QUIZ_STORE' = DOMAIN QUIZ_STORE \cup {Val(resp'.req).target}
             /\ Some(QUIZ_STORE'[Val(resp'.req).target]) = resp'.body
        /\ (resp'.op = "admin_create_character" /\ resp'.status = 200) =>
             /\ Val(resp'.req).target \notin StoredIds
             /\ CHARACTER_STORE' = Append(CHARACTER_STORE, Val(resp'.body))
             /\ Val(resp'.body).id = Val(resp'.req).target
        /\ \A q \in DOMAIN QUESTION_STORE :
             (q \notin DOMAIN QUESTION_STORE' \/ QUESTION_STORE'[q] # QUESTION_STORE[q])
               => /\ resp'.op \in {"admin_update_question", "admin_delete_question"}
                  /\ Val(resp'.req).target = q /\ resp'.status = 200
        /\ \A z \in DOMAIN QUIZ_STORE :
             (z \notin DOMAIN QUIZ_STORE' \/ QUIZ_STORE'[z] # QUIZ_STORE[z])
               => /\ resp'.op \in {"admin_update_quiz", "admin_delete_quiz"}
                  /\ Val(resp'.req).target = z /\ resp'.status = 200
        /\ (resp'.op = "get_quiz" /\ Val(resp'.req).target \in DOMAIN QUIZ_STORE)
             => resp'.body = Some(QUIZ_STORE[Val(resp'.req).target])
        /\ (resp'.op = "admin_list_questions" /\ resp'.status = 200)
             => resp'.body = Some(QUESTION_STORE)
        /\ (resp'.op = "admin_list_quizzes" /\ resp'.status = 200)
             => resp'.body = Some(QUIZ_STORE)
      ]_vars

\* get_quiz returns the quiz an admin created, under the id the create gave
C17_Witness ==
    /\ Ok("get_quiz")
    /\ Target \in issued
    /\ resp.body = Some([question_ids |-> <<"q1">>])

\* the list of questions holds the question an admin created
C17_CreatedQuestionCase ==
    /\ Ok("admin_list_questions")
    /\ \E q \in issued : q \in DOMAIN Val(resp.body) /\ Val(resp.body)[q].choices = Rewritten

\* a PUT with the right token on an id that is not in the store
C17_UpdateMissingCase ==
    /\ resp.op = "admin_update_question"
    /\ resp.status = 404
    /\ Target \notin DOMAIN QUESTION_STORE

\* C18: with submit_answer and compute_match of one session interleaved
\* statement by statement, whenever no handler is in progress and the
\* session's scored flag is true, the stored match is the one compute_scores
\* gives for the session's current answers (the catalog is not edited here).
C18_ScoredMeansCurrent ==
    \A s \in DOMAIN SESSION_STORE :
        (Quiescent /\ SESSION_STORE[s].scored) =>
            /\ ~IsNone(ResultOf(s).match)
            /\ Val(ResultOf(s).match).scores = _compute_scores(SESSION_STORE[s])

\* an upload in progress that has named the file and has not written it yet
Unwritten(path) ==
    \E t \in Threads :
        /\ threads[t].op = "upload_selfie"
        /\ threads[t].path = Some(path)
        /\ Pos(UploadOrder, threads[t].pc) <= Pos(UploadOrder, "write")

C19_RegenerateCase ==
    /\ \E t \in Threads : At(t, "generate_portrait", "copy")
    /\ ~IsNone(ResultOf("s1").portrait_url)

\* an upload that failed after open(): the file stays, no reference
C19_AbortCase ==
    /\ resp.op = "upload_selfie"
    /\ resp.status = 500
    /\ \E b \in blobs : b[1] = "uploads" /\
          \A i \in 1..Len(SESSION_STORE["s1"].uploads) : SESSION_STORE["s1"].uploads[i] # b

SessionOps == LookupOps \cup {"create_session"}

\* C20: a request for one session (create_session giving it, submit_answer,
\* compute_match, upload_selfie, generate_portrait, get_result) leaves every
\* other session as it was (answers, uploads, quiz_id, scored, expires_at),
\* leaves every other session's stored match and portrait reference as they
\* were, and removes no file.
C20_SessionsIndependent ==
    [][ resp'.op \in SessionOps =>
          /\ \A s \in DOMAIN SESSION_STORE \ {resp'.sid} :
                /\ s \in DOMAIN SESSION_STORE'
                /\ SESSION_STORE'[s] = SESSION_STORE[s]
          /\ \A s \in DOMAIN RESULT_STORE \ {resp'.sid} :
                /\ s \in DOMAIN RESULT_STORE'
                /\ RESULT_STORE'[s] = RESULT_STORE[s]
          /\ DOMAIN RESULT_STORE' \subseteq DOMAIN RESULT_STORE \cup {resp'.sid}
          /\ DOMAIN SESSION_STORE' \subseteq DOMAIN SESSION_STORE \cup {resp'.sid}
          /\ blobs \subseteq blobs'
          /\ \A b \in blobs' \ blobs : b[2] = resp'.sid
      ]_vars

\* s1 gets its match while s2 holds other answers, a match, an upload and a
\* portrait of its own
C20_Witness ==
    /\ Ok("compute_match")
    /\ resp.sid = "s1"
    /\ "s2" \in DOMAIN SESSION_STORE
    /\ AnswerSet(SESSION_STORE["s2"]) = {<<"q1", "c2">>}
    /\ AnswerSet(SESSION_STORE["s1"]) = {<<"q1", "c1">>}
    /\ SESSION_STORE["s2"].scored
    /\ SESSION_STORE["s2"].uploads # <<>>
    /\ ~IsNone(ResultOf("s2").portrait_url)
    /\ Val(Val(ResultOf("s2").match).top_match).character_id = "leia"
    /\ Val(Val(resp.match).top_match).character_id = "luke"

\* a session created while another one is in use
C20_CreateCase ==
    /\ Ok("create_session")
    /\ \E s \in DOMAIN SESSION_STORE \ {resp.sid} : SESSION_STORE[s].answers # <<>>

\* an answer whose choice id is still among the choices of its question
Current(a) ==
    /\ a.k \in DOMAIN QUESTION_STORE
    /\ a.v \in ChoiceIds(QUESTION_STORE[a.k])

\* C21: compute_match on a live session with a quiz selected, all of whose
\* answered questions are in the store, succeeds also when an answer's choice
\* id is no longer among the choices of its question: the ranked list is the
\* one the other answers alone give, so that the stale answer adds 0 to every
\* character's score, and every score is 0 when no answer is current.
C21_StaleChoiceSkipped ==
    [][ (/\ resp'.op = "compute_match"
         /\ _get_session_or_404(resp'.sid) = 0
         /\ ~IsNone(SESSION_STORE[resp'.sid].quiz_id)
         /\ ~ScoresRaise(SESSION_STORE[resp'.sid]))
          => LET session == SESSION_STORE[resp'.sid]
                 others == SelectSeq(session.answers, Current)
                 scores == Val(resp'.match).scores
             IN  /\ resp'.status = 200
                 /\ scores = _compute_scores([session EXCEPT !.answers = others])
                 /\ \A ch \in CharacterIds : ScoreIn(scores, ch) = SumOfWeights(others, ch)
                 /\ others = <<>> => \A i \in 1..Len(scores) : scores[i].score = 0
      ]_vars

\* a match computed from the answers q1/c2 and q2/c6 after q1 was rewritten
\* to the single choice c1: only q2/c6 counts
C21_Witness ==
    /\ Ok("compute_match")
    /\ "q1" \in DOMAIN QUESTION_STORE
    /\ QUESTION_STORE["q1"].choices = Rewritten
    /\ DictKeys(SESSION_STORE[resp.sid].answers) = {"q1", "q2"}
    /\ DictGet(SESSION_STORE[resp.sid].answers, "q1") = "c2"
    /\ DictGet(SESSION_STORE[resp.sid].answers, "q2") = "c6"
    /\ ScoreIn(Val(resp.match).scores, "leia") = 1
    /\ ScoreIn(Val(resp.match).scores, "luke") = 0

\* the match whose only answer is stale: every score is 0 and there is no
\* character
C21_OnlyStaleCase ==
    /\ Ok("compute_match")
    /\ "q1" \in DOMAIN QUESTION_STORE
    /\ QUESTION_STORE["q1"].choices = Rewritten
    /\ SESSION_STORE[resp.sid].answers = << [k |-> "q1", v |-> "c2"] >>
    /\ IsNone(Val(resp.match).character)

\* the references of a sequence of uploads
Refs(uploads) == {uploads[i] : i \in 1..Len(uploads)}

\* C22: a session's uploads change only by one reference being appended:
\* in every step each session keeps its uploads, or a worker of upload_selfie
\* at its append adds its own new reference at the end; an upload that
\* answers 200 has its reference in the sequence exactly once, and its
\* declared type is JPEG or PNG; upload_selfie on a live session with any
\* other content type answers 400 "Unsupported file type", starts no work and
\* leaves the session as it was; and generate_portrait takes the last element
\* of the sequence as its source.
C22_UploadsAppendOnly ==
    [][ /\ \A s \in DOMAIN SESSION_STORE :
              /\ s \in DOMAIN SESSION_STORE'
              /\ \/ SESSION_STORE'[s].uploads = SESSION_STORE[s].uploads
                 \/ \E t \in Threads :
                       /\ At(t, "upload_selfie", "track")
                       /\ threads[t].sid = s
                       /\ Val(threads[t].path) \notin Refs(SESSION_STORE[s].uploads)
                       /\ SESSION_STORE'[s].uploads =
                              SESSION_STORE[s].uploads \o <<Val(threads[t].path)>>
        /\ \A t \in Threads :
              /\ (At(t, "upload_selfie", "track") /\ threads'[t] # threads[t])
                   => Len(SESSION_STORE'[threads[t].sid].uploads)
                          = Len(SESSION_STORE[threads[t].sid].uploads) + 1
              /\ (At(t, "upload_selfie", "return") /\ threads'[t] # threads[t])
                   => /\ resp'.op = "upload_selfie" /\ resp'.status = 200
                      /\ Cardinality({i \in 1..Len(SESSION_STORE'[resp'.sid].uploads) :
                             SESSION_STORE'[resp'.sid].uploads[i] = Val(resp'.path)}) = 1
                      /\ Val(resp'.path)[4] \in {".jpg", ".png"}
              /\ \A s \in DOMAIN SESSION_STORE, hex \in UploadNames,
                    content_type \in ContentTypes \ {"image/jpeg", "image/png"} :
                    (_get_session_or_404(s) = 0
                       /\ upload_selfie_begin(t, s, content_type, hex))
                      => /\ resp'.status = 400
                         /\ resp'.detail = "Unsupported file type"
                         /\ threads' = threads
                         /\ SESSION_STORE' = SESSION_STORE
                         /\ blobs' = blobs
              /\ (threads[t] = Idle /\ threads'[t].op = "generate_portrait")
                   => LET uploads == SESSION_STORE[threads'[t].sid].uploads
                      IN  threads'[t].req = Some(uploads[Len(uploads)])
      ]_vars

\* a second reference appended behind the first one, with a portrait being
\* generated from the first one meanwhile
C22_Witness ==
    /\ "s1" \in DOMAIN SESSION_STORE
    /\ Len(SESSION_STORE["s1"].uploads) = 2
    /\ \E t \in Threads :
          /\ threads[t].op = "generate_portrait"
          /\ threads[t].req = Some(SESSION_STORE["s1"].uploads[1])

\* a portrait generated from the second of two uploads
C22_LastOfTwoCase ==
    /\ "s1" \in DOMAIN SESSION_STORE
    /\ Len(SESSION_STORE["s1"].uploads) = 2
    /\ \E t \in Threads :
          /\ threads[t].op = "generate_portrait"
          /\ threads[t].req = Some(SESSION_STORE["s1"].uploads[2])

\* a GIF refused on a session that has an upload
C22_RefusedCase ==
    /\ "s1" \in DOMAIN SESSION_STORE
    /\ resp.op = "upload_selfie"
    /\ resp.detail = "Unsupported file type"
    /\ SESSION_STORE["s1"].uploads # <<>>

\* the session create_session(ttl_minutes) is to store
Fresh(ttl_minutes) ==
    [expires_at |-> now + (IF ttl_minutes > 1 THEN ttl_minutes ELSE 1),
     answers |-> <<>>, uploads |-> <<>>, quiz_id |-> None, scored |-> FALSE]

\* what a successful create_session(session_id, ttl_minutes) does
Created(session_id, ttl_minutes) ==
    /\ resp'.status = 200
    /\ resp'.sid = session_id
    /\ session_id \notin DOMAIN SESSION_STORE
    /\ DOMAIN SESSION_STORE' = DOMAIN SESSION_STORE \cup {session_id}
    /\ \A s \in DOMAIN SESSION_STORE : SESSION_STORE'[s] = SESSION_STORE[s]
    /\ SESSION_STORE'[session_id] = Fresh(ttl_minutes)
    /\ now <= SESSION_STORE'[session_id].expires_at
    /\ ~IsExpired(SESSION_STORE'[session_id])
    /\ UNCHANGED <<now, catalog, RESULT_STORE, blobs>>

\* C23: create_session never fails: for every integer ttl_minutes, zero and
\* negative ones included, it answers 200 and adds exactly one session under
\* an id that was not in the store, with empty answers and uploads, no
\* quiz_id, scored false and expires_at = now + max(1, ttl_minutes), which is
\* not before now, so that the session is not expired when it is created.
C23_CreateNeverFails ==
    [][ /\ resp'.op = "create_session" => resp'.status = 200
        /\ \A session_id \in OrderSessionIds, ttl_minutes \in TtlInputs :
              create_session(session_id, ttl_minutes) => Created(session_id, ttl_minutes)
      ]_vars

\* C23, the part that holds: create_session with a ttl_minutes whose expiry
\* is a representable date (zero and negative ones included) never fails
\* and stores the session the claim describes; with any other ttl_minutes it
\* answers 500 and stores nothing.
C23_CreateWithinRange ==
    [][ \A session_id \in OrderSessionIds, ttl_minutes \in TtlInputs :
          create_session(session_id, ttl_minutes) =>
              IF now + (IF ttl_minutes > 1 THEN ttl_minutes ELSE 1) <= DatetimeMax
              THEN Created(session_id, ttl_minutes)
              ELSE /\ resp'.status = 500
                   /\ UNCHANGED <<now, stores>>
      ]_vars

\* a session created with ttl_minutes <= 1 after the clock has advanced
C23_ZeroTtlCase ==
    /\ Ok("create_session")
    /\ now > 0
    /\ SESSION_STORE[resp.sid].expires_at = now + 1

\* a create_session that failed beside a session that was created
C23_OverflowCase ==
    /\ resp.op = "create_session"
    /\ resp.status = 500
    /\ SESSION_STORE # <<>>

\* a question put behind the questions of a list whose order is not greater
RECURSIVE PlaceByOrder(_, _)
PlaceByOrder(sorted, q) ==
    IF sorted = <<>> THEN <<q>>
    ELSE IF Head(sorted).order <= q.order
         THEN <<Head(sorted)>> \o PlaceByOrder(Tail(sorted), q)
         ELSE <<q>> \o sorted

\* the questions in non-decreasing order field, ties as they were listed
RECURSIVE DisplayOrder(_, _)
DisplayOrder(questions, sorted) ==
    IF questions = <<>> THEN sorted
    ELSE DisplayOrder(Tail(questions), PlaceByOrder(sorted, Head(questions)))

\* the questions a quiz lists, as the store holds them
Listed(quiz_id) ==
    [i \in 1..Len(QUIZ_STORE[quiz_id].question_ids) |->
        QUESTION_STORE[QUIZ_STORE[quiz_id].question_ids[i]]]

\* C24: a successful get_quiz_questions returns the questions of the quiz in
\* display order: no question comes before one with a smaller order field,
\* and questions with equal order fields come as the quiz lists them.
C24_DisplayOrder ==
    [][ (resp'.op = "get_quiz_questions" /\ resp'.status = 200) =>
          /\ \A i, j \in 1..Len(Val(resp'.body)) :
                i < j => Val(resp'.body)[i].order <= Val(resp'.body)[j].order
          /\ Val(resp'.body) = DisplayOrder(Listed(Target'), <<>>)
      ]_vars

\* C24, the part that holds: a successful get_quiz_questions returns the
\* questions in the order of the quiz's question_ids, whatever their order
\* fields are; that is the display order exactly when the order fields do
\* not decrease along question_ids.
C24_ListedOrder ==
    [][ (resp'.op = "get_quiz_questions" /\ resp'.status = 200) =>
          /\ Val(resp'.body) = Listed(Target')
          /\ (Val(resp'.body) = DisplayOrder(Listed(Target'), <<>>))
               <=> \A i, j \in 1..Len(Listed(Target')) :
                      i < j => Listed(Target')[i].order <= Listed(Target')[j].order
      ]_vars

\* the questions returned with a larger order field first
C24_OutOfOrderCase ==
    /\ Ok("get_quiz_questions")
    /\ Len(Val(resp.body)) = 3
    /\ Val(resp.body)[1].order > Val(resp.body)[3].order

\* the seeded quiz returned in display order
C24_SeededCase ==
    /\ Ok("get_quiz_questions")
    /\ QUIZ_STORE = SeedQuizzes
    /\ QUESTION_STORE = SeedQuestions
    /\ Val(resp.body) = DisplayOrder(Listed("default"), <<>>)

\* C25: a recorded portrait reference survives recomputation: a successful
\* compute_match on a session writes the new match and leaves the session's
\* portrait_url as it was, while its own response carries no portrait_url;
\* no request other than generate_portrait on that session changes a
\* recorded portrait_url; and get_result returns the recorded portrait_url
\* together with the match stored last, whatever its top_match is.
C25_PortraitSurvivesMatch ==
    [][ /\ (resp'.op = "compute_match" /\ resp'.status = 200) =>
             LET s == resp'.sid
             IN  /\ RESULT_STORE'[s].portrait_url = ResultOf(s).portrait_url
                 /\ RESULT_STORE'[s].match = resp'.match
                 /\ IsNone(Val(resp'.match).portrait_url)
                 /\ blobs' = blobs
        /\ \A s \in DOMAIN RESULT_STORE :
             ~IsNone(RESULT_STORE[s].portrait_url) =>
                /\ s \in DOMAIN RESULT_STORE'
                /\ \/ RESULT_STORE'[s].portrait_url = RESULT_STORE[s].portrait_url
                   \/ resp'.op = "generate_portrait" /\ resp'.sid = s /\ resp'.status = 200
                /\ Val(RESULT_STORE[s].portrait_url) \in blobs'
        /\ (resp'.op = "get_result" /\ resp'.status = 200
              /\ ~IsNone(ResultOf(resp'.sid).portrait_url)) =>
             LET res == RESULT_STORE[resp'.sid]
             IN  /\ Val(resp'.match).portrait_url = res.portrait_url
                 /\ Val(resp'.match).top_match = Val(res.match).top_match
                 /\ Val(resp'.match).scores = Val(res.match).scores
                 /\ Val(resp'.match).character = Val(res.match).character
      ]_vars

\* a result returned with the portrait and a later match that has no
\* top_match (every character was deleted after the portrait was made)
C25_Witness ==
    /\ Ok("get_result")
    /\ ~IsNone(Val(resp.match).portrait_url)
    /\ IsNone(Val(resp.match).top_match)
    /\ CHARACTER_STORE = <<>>

\* a match recomputed over a recorded portrait, with another top_match than
\* luke's, answered without portrait_url
C25_RecomputedCase ==
    /\ Ok("compute_match")
    /\ ~IsNone(ResultOf(resp.sid).portrait_url)
    /\ IsNone(Val(resp.match).portrait_url)
    /\ ~IsNone(Val(resp.match).top_match)
    /\ Val(Val(resp.match).top_match).character_id # "luke"
    /\ "luke" \in CharacterIds

\* a result returned with the portrait and a match whose top score is 0
C25_NoCharacterCase ==
    /\ Ok("get_result")
    /\ ~IsNone(Val(resp.match).portrait_url)
    /\ ~IsNone(Val(resp.match).top_match)
    /\ IsNone(Val(resp.match).character)

====
